---- MODULE Spec2Model ----
(***************************************************************************)
(* Model of the Lux_WS client of custom_components/novelanladv9            *)
(* (reading_data.py): the write path set_control and the fetchers          *)
(* fetch_data, fetch_controls and fetch_setpoints, each as a state machine *)
(* whose steps are the coroutine's await points (connect, send, recv); the *)
(* code between two awaits is one atomic step.  Further parts model the    *)
(* host entities (sensor.py, select.py, number.py) that call the client,   *)
(* the tree dump of tools/novelan_ws_dump.py (collect_report), and         *)
(* _normalize_label on its own.                                            *)
(*                                                                         *)
(* Python values:                                                          *)
(*   - a str is the sequence of its pieces (<<"set_", "c1">> is "set_c1"), *)
(*     the empty sequence is "" and also stands for None where the code    *)
(*     only tests truthiness (ids, label, page_id);                        *)
(*   - a raw label (what xmltodict yields for <name>) is a tagged record;  *)
(*   - a child collection is tagged with the shape xmltodict gives it:     *)
(*     key absent, a bare dict, or a list.                                 *)
(***************************************************************************)
EXTENDS Naturals, Sequences, FiniteSets, TLC

VARIABLES
    \* ---- set_control: the caller's arguments
    control_id, page_id, label, value,
    \* ---- set_control: the coroutine
    pc,             \* the await point the call is at
    conn,           \* "none" | "open" | "peer_closed" | "closed"
    sent,           \* the commands written to the socket, in order
    responses,      \* the list `responses` of the closure _recv_optional
    nav_page_id, active_id,
    prefixed_bound, prefixed_id,   \* whether the local is assigned, and its value
    refresh, final_refresh,
    reads,          \* the number of _recv_optional calls that have returned
    outcome,        \* how the call ended: returned (result) or raised (error)
    \* ---- fetch_data, fetch_controls, fetch_setpoints
    navFrame,       \* the device's Navigation document (top-level items)
    contentFrame,   \* the device's Content document (groups of leaves)
    fpc, fconn, fsent, res, foutcome,
    fn,             \* the fetch function that is called
    calls,          \* the number of calls of fetch_data begun so far
    prev,           \* what the previous call of fetch_data sent and returned
    \* ---- every entry point
    opened,         \* the number of connections the call has opened
    \* ---- the host entities of one device address (sensor.py, select.py, number.py)
    task,           \* per operation: where it is, and the error its handler raised
    session,        \* the number of device sessions opened so far
    sel,            \* the select entity: _value, _meta.values_id, _meta.navigation_id
    num,            \* the number entity: _value, _control_id
    writes,         \* the set_control calls issued by the entities
    \* ---- the tree dump (tools/novelan_ws_dump.py, collect_report)
    wargs,          \* args: max_nodes, retries, max_failures, overview_only
    dev,            \* the device: its tree, the ids it never answers, whether it is flaky
    faults,         \* the faults the flaky device has injected so far
    wpc,            \* the await point the walk is at
    wat,            \* which call of _open_connection is running: init, gate, fail
    wconn,          \* the connection of the local `websocket`
    nconn,          \* the connection _open_connection has opened and not yet returned
    wsess,          \* the number of sessions logged in so far
    queue, seen, retries, report, skipped, skipped_count,
    cur,            \* `node`, the QueueNode taken from the queue
    woutcome,       \* how collect_report ended
    trace,          \* what the walk did, in order: get, ok, fail, skip, dup
    \* ---- _normalize_label on its own
    nraw,           \* the raw label handed to _normalize_label
    ntext,          \* the strings it returned
    npc             \* build: the raw label is put together; done: it was normalized

setVars == <<control_id, page_id, label, value, pc, conn, sent, responses,
             nav_page_id, active_id, prefixed_bound, prefixed_id,
             refresh, final_refresh, reads, outcome>>
fetchVars == <<navFrame, contentFrame, fpc, fconn, fsent, res, foutcome, fn, calls, prev>>
hostVars == <<task, session, sel, num, writes>>
walkVars == <<wargs, dev, faults, wpc, wat, wconn, nconn, wsess, queue, seen, retries,
              report, skipped, skipped_count, cur, woutcome, trace>>
normVars == <<nraw, ntext, npc>>
vars == <<setVars, fetchVars, hostVars, walkVars, normVars, opened>>

----------------------------------------------------------------------------
(* Strings, labels, decoded documents *)

Last(s) == s[Len(s)]

\* Python truthiness of a str-or-None
Truthy(s) == s /= <<>>

RECURSIVE LStrip(_)
LStrip(s) == IF s /= <<>> /\ Head(s) = " " THEN LStrip(Tail(s)) ELSE s

RECURSIVE RStrip(_)
RStrip(s) == IF s /= <<>> /\ Last(s) = " " THEN RStrip(SubSeq(s, 1, Len(s) - 1)) ELSE s

\* str.strip()
Strip(s) == RStrip(LStrip(s))

\* raw labels: str, None, list of raw labels, dict (its values under the keys
\* "#text", "@name", "name", in that order)
RStr(s)  == [t |-> "str",  s |-> s,    l |-> <<>>]
RNone    == [t |-> "none", s |-> <<>>, l |-> <<>>]
RList(l) == [t |-> "list", s |-> <<>>, l |-> l]
RDict(l) == [t |-> "dict", s |-> <<>>, l |-> l]

RECURSIVE _normalize_label(_)
RECURSIVE FirstText(_)
\* mutant: the text found in a list or a dict is stripped
FirstText_Stripped(l) ==
    IF l = <<>> THEN <<>>
    ELSE LET text == Strip(_normalize_label(Head(l)))
         IN  IF Truthy(text) THEN text ELSE FirstText(Tail(l))

\* the first non-empty normalized label of a sequence of raw labels, "" if none
FirstText(l) ==
    IF l = <<>> THEN <<>>
    ELSE LET text == _normalize_label(Head(l))
         IN  IF Truthy(text) THEN text ELSE FirstText(Tail(l))

_normalize_label(raw) ==
    CASE raw.t = "list" -> FirstText(raw.l)
      [] raw.t = "dict" -> FirstText(raw.l)
      [] raw.t = "none" -> <<>>
      [] OTHER          -> raw.s

\* child collections as xmltodict decodes them
CNone     == [k |-> "none", v |-> <<>>]
CDict(n)  == [k |-> "dict", v |-> <<n>>]
CList(ns) == [k |-> "list", v |-> ns]

\* xmltodict.parse on the children <item>...</item> of one element: no child
\* leaves the key out, one child is a bare dict, several are a list
XmlItems(ns) ==
    IF Len(ns) = 0 THEN CNone
    ELSE IF Len(ns) = 1 THEN CDict(ns[1])
    ELSE CList(ns)

\* "if isinstance(x, dict): x = [x]"
WrapDict(c) == IF c.k = "dict" THEN CList(c.v) ELSE c

\* a decoded element: name (raw label), @id, value, children
Node(name, id, val, kids) == [name |-> name, id |-> id, value |-> val, item |-> XmlItems(kids)]

\* next((x for x in seq if P(x)), None): index of the first match, 0 if none
RECURSIVE FirstIndex(_, _, _)
FirstIndex(seq, P(_), i) ==
    IF i > Len(seq) THEN 0
    ELSE IF P(seq[i]) THEN i
    ELSE FirstIndex(seq, P, i + 1)

----------------------------------------------------------------------------
(* set_control: the frames of the device *)

\* a received message: its text and the number of commands sent before the
\* read that returned it (= the index in `sent` of the command it follows)
Msg(body, n) == [body |-> body, after |-> n]
NoMsg == [body |-> "<None>", after |-> 0]
\* truthiness of "msg or ...": None and the empty text frame are falsy
MsgTruthy(m) == m.body \notin {"<None>", ""}

\* Navigation greeting: Informationen, Einstellungen -> Betriebsart (@id p2)
NavDoc ==
    [ok |-> TRUE, root |-> "Navigation",
     item |-> XmlItems(<<
        Node(RStr(<<"Informationen">>), <<"i1">>, <<>>, <<>>),
        Node(RStr(<<"Einstellungen">>), <<"s1">>, <<>>,
             << Node(RStr(<<"Betriebsart">>), <<"p2">>, <<>>, <<>>) >>) >>)]

\* the same greeting from a device that names its branches Information and
\* Settings
NavDocAlias ==
    [ok |-> TRUE, root |-> "Navigation",
     item |-> XmlItems(<<
        Node(RStr(<<"Information">>), <<"i1">>, <<>>, <<>>),
        Node(RStr(<<"Settings">>), <<"s1">>, <<>>,
             << Node(RStr(<<"Betriebsart">>), <<"p2">>, <<>>, <<>>) >>) >>)]

\* the Betriebsart page: one item without @id, then the control "L" twice
PageDoc ==
    [ok |-> TRUE, root |-> "Content",
     item |-> XmlItems(<<
        Node(RStr(<<"L">>), <<>>, <<"x">>, <<>>),
        Node(RStr(<<" ", "L">>), <<"c2">>, <<"x">>, <<>>),
        Node(RStr(<<"L">>), <<"c9">>, <<"y">>, <<>>) >>)]

\* the answer to REFRESH: a values document
ValuesDoc ==
    [ok |-> TRUE, root |-> "values",
     item |-> XmlItems(<< Node(RList(<<RStr(<<"L">>)>>), <<"set_", "c3">>, <<"x">>, <<>>) >>)]

BadDoc == [ok |-> FALSE, root |-> "", item |-> CNone]

\* xmltodict.parse(body)
Parse(body) ==
    CASE body = "nav"    -> NavDoc
      [] body = "nav_alias" -> NavDocAlias
      [] body = "page"   -> PageDoc
      [] body = "values" -> ValuesDoc
      [] OTHER           -> BadDoc

\* what the device may answer to a read before SET (it may answer out of
\* order, with an empty text frame or with a frame that does not decode)
PreSetBodies == {"", "nav", "nav_alias", "page", "values", "bad"}
\* frames read after SET are never decoded: only their emptiness is observed
PostSetBodies == {"", "values"}

----------------------------------------------------------------------------
(* set_control: the pure parts *)

Cmd(op, id, val) == [op |-> op, id |-> id, val |-> val]
LOGIN       == Cmd("LOGIN", <<>>, <<>>)
GET(id)     == Cmd("GET", id, <<>>)
SET(id, v)  == Cmd("SET", id, v)
REFRESH     == Cmd("REFRESH", <<>>, <<>>)
SAVE1       == Cmd("SAVE;1", <<>>, <<>>)

IsSettings(node) == Strip(_normalize_label(node.name)) \in {<<"Einstellungen">>, <<"Settings">>}
IsOperate(child) == Strip(_normalize_label(child.name)) = <<"Betriebsart">> /\ Truthy(child.id)

\* mutant: the greeting is not consulted
NavPageId_Caller(greeting, pageId) == pageId

\* lines 297-332: the page to open, from the greeting or from the caller
NavPageId(greeting, pageId) ==
    IF ~MsgTruthy(greeting) THEN pageId
    ELSE LET nav_root == Parse(greeting.body)
             items == IF nav_root.ok /\ nav_root.root = "Navigation"
                      THEN WrapDict(nav_root.item) ELSE CNone
             si == IF items.k = "list" THEN FirstIndex(items.v, IsSettings, 1) ELSE 0
             children == IF si = 0 THEN CNone ELSE WrapDict(items.v[si].item)
             oi == IF children.k = "list" THEN FirstIndex(children.v, IsOperate, 1) ELSE 0
         IN  IF oi = 0 THEN pageId ELSE children.v[oi].id

\* mutant: the last matching item is taken
MatchItem_Last(payload, root, lbl, dflt) ==
    LET doc == Parse(payload.body)
        candidates == IF doc.ok /\ doc.root = root THEN WrapDict(doc.item) ELSE CNone
        hits == {i \in DOMAIN candidates.v :
                    Strip(_normalize_label(candidates.v[i].name)) = lbl /\ Truthy(candidates.v[i].id)}
    IN  IF hits = {} THEN dflt
        ELSE candidates.v[CHOOSE i \in hits : \A j \in hits : j <= i].id

\* lines 349-357 and 369-377: the @id of the first item of the document, under
\* the root `root`, whose label is `lbl` and that has an @id; `dflt` if none
MatchItem(payload, root, lbl, dflt) ==
    LET doc == Parse(payload.body)
        candidates == IF doc.ok /\ doc.root = root THEN WrapDict(doc.item) ELSE CNone
        IsTarget(c) == Strip(_normalize_label(c.name)) = lbl /\ Truthy(c.id)
        i == FirstIndex(candidates.v, IsTarget, 1)
    IN  IF i = 0 THEN dflt ELSE candidates.v[i].id

\* lines 343-357
PageTarget(outer_payload, lbl, activeId) ==
    IF MsgTruthy(outer_payload) /\ Truthy(lbl)
    THEN MatchItem(outer_payload, "Content", lbl, activeId)
    ELSE activeId

\* lines 363-377
LookupTarget(refresh_payload, lbl, activeId) ==
    IF MsgTruthy(refresh_payload)
    THEN MatchItem(refresh_payload, "values", lbl, activeId)
    ELSE activeId

\* mutant: the lookup is made whenever a label is given
NeedsLookup_Always(lbl, activeId) == Truthy(lbl)

\* line 359
NeedsLookup(lbl, activeId) == Truthy(lbl) /\ ~Truthy(activeId)

\* mutant: the check of line 379 is dropped
MissingId_Never(activeId) == FALSE

\* line 379
MissingId(activeId) == ~Truthy(activeId)

\* mutant: the marker is added whatever the id begins with
Prefixed_Always(activeId) == <<"set_">> \o activeId

\* lines 382-384
Prefixed(activeId) ==
    IF Len(activeId) >= 1 /\ activeId[1] = "set_" THEN activeId ELSE <<"set_">> \o activeId

\* how a call ends: it returns `result` or raises `error`; `via` names the place
\* that ended it ("return": the return statement, "closed": the handler of
\* ConnectionClosed, "failed": the handler of the other errors, "missing": line 380)
Running == [kind |-> "running", result |-> NoMsg, error |-> "", via |-> ""]
Returned(m, via) == [kind |-> "returned", result |-> m, error |-> "", via |-> via]
Raised(e, via) == [kind |-> "raised", result |-> NoMsg, error |-> e, via |-> via]

\* mutant: the two REFRESH responses are preferred in the wrong order
PickResult_Swapped(final, refr, resps) ==
    Returned(IF MsgTruthy(refr) THEN refr
             ELSE IF MsgTruthy(final) THEN final
             ELSE IF resps /= <<>> THEN Last(resps)
             ELSE NoMsg, "return")

\* line 408
PickResult(final, refr, resps) ==
    Returned(IF MsgTruthy(final) THEN final
             ELSE IF MsgTruthy(refr) THEN refr
             ELSE IF resps /= <<>> THEN Last(resps)
             ELSE NoMsg, "return")

\* mutant: the handler returns the first buffered response
ClosedHandler_First(resps, pbound, pid) ==
    IF resps /= <<>> THEN Returned(Head(resps), "closed")
    ELSE IF ~pbound THEN Raised("UnboundLocalError", "closed")
    ELSE IF Truthy(pid) THEN Raised("ControlCommandError", "closed")
    ELSE Returned(NoMsg, "closed")

\* lines 409-420: the handler of ConnectionClosed. Reading prefixed_id before
\* line 382 assigned it raises UnboundLocalError out of the handler.
ClosedHandler(resps, pbound, pid) ==
    IF resps /= <<>> THEN Returned(Last(resps), "closed")
    ELSE IF ~pbound THEN Raised("UnboundLocalError", "closed")
    ELSE IF Truthy(pid) THEN Raised("ControlCommandError", "closed")
    ELSE Returned(NoMsg, "closed")

\* lines 421-428: connect failure, timeout, websocket error
FailHandler == Raised("ControlCommandError", "failed")

\* line 380
MissingHandler == Raised("ControlCommandError", "missing")

----------------------------------------------------------------------------
(* set_control: the coroutine *)

ControlIds == {<<>>, <<"c1">>, <<"set_", "c1">>}
PageIds    == {<<>>, <<"p1">>}
Labels     == {<<>>, <<"L">>}

\* the host entities while one client call is the call under check
HostIdle ==
    /\ task = <<>> /\ session = 0 /\ sel = <<>> /\ num = <<>> /\ writes = {}

\* no label is being normalized on its own
NormIdle == nraw = <<>> /\ ntext = <<>> /\ npc = "idle"

\* the variables of the tree dump while another entry point is under check
WalkIdle ==
    /\ wargs = <<>> /\ dev = <<>> /\ faults = 0
    /\ wpc = "idle" /\ wat = "init" /\ wconn = "none" /\ nconn = "none" /\ wsess = 0
    /\ queue = <<>> /\ seen = {} /\ retries = <<>> /\ report = <<>>
    /\ skipped = <<>> /\ skipped_count = 0 /\ cur = <<>>
    /\ woutcome = Running /\ trace = <<>>

\* no earlier call
NoCall == [kind |-> "none", sent |-> <<>>, res |-> <<>>]

\* the variables of fetch_data while set_control is the call under check
FetchIdle ==
    /\ navFrame = <<>> /\ contentFrame = <<>>
    /\ fpc = "idle" /\ fconn = "none" /\ fsent = <<>>
    /\ res = <<>> /\ foutcome = Running
    /\ fn = "none" /\ calls = 0 /\ prev = NoCall

SetInit ==
    /\ control_id \in ControlIds
    /\ page_id \in PageIds
    /\ label \in Labels
    /\ value = <<"7">>
    /\ pc = "connect"
    /\ conn = "none"
    /\ sent = <<>>
    /\ responses = <<>>
    /\ nav_page_id = <<>>
    /\ active_id = <<>>
    /\ prefixed_bound = FALSE
    /\ prefixed_id = <<>>
    /\ refresh = NoMsg
    /\ final_refresh = NoMsg
    /\ reads = 0
    /\ outcome = Running
    /\ opened = 0
    /\ FetchIdle
    /\ HostIdle
    /\ WalkIdle
    /\ NormIdle

SetIdle ==
    /\ control_id = <<>> /\ page_id = <<>> /\ label = <<>> /\ value = <<>>
    /\ pc = "idle" /\ conn = "none" /\ sent = <<>> /\ responses = <<>>
    /\ nav_page_id = <<>> /\ active_id = <<>>
    /\ prefixed_bound = FALSE /\ prefixed_id = <<>>
    /\ refresh = NoMsg /\ final_refresh = NoMsg /\ reads = 0 /\ outcome = Running

args == <<control_id, page_id, label, value>>

\* leaving "async with websockets.connect(...)": the client closes the socket
Leave(o) ==
    /\ outcome' = o
    /\ pc' = "done"
    /\ conn' = "closed"

\* mutant: a send on a closed connection waits for ever instead of raising
Send_Stuck(at, cmd, next) ==
    /\ pc = at
    /\ IF conn = "open"
       THEN /\ sent' = Append(sent, cmd)
            /\ pc' = next
            /\ UNCHANGED <<conn, outcome>>
       ELSE UNCHANGED <<sent, pc, conn, outcome>>

\* await websocket.send(cmd) at `at`: the command goes out and the call moves
\* to `next`, or the connection is closed and send raises ConnectionClosed,
\* which lines 409-420 handle
Send(at, cmd, next) ==
    /\ pc = at
    /\ IF conn = "open"
       THEN /\ sent' = Append(sent, cmd)
            /\ pc' = next
            /\ UNCHANGED <<conn, outcome>>
       ELSE /\ Leave(ClosedHandler(responses, prefixed_bound, prefixed_id))
            /\ UNCHANGED sent

\* lines 274-284, _recv_optional: a frame, appended to responses, or None on a
\* timeout or a closed connection
Reads(bodies) ==
    {NoMsg} \cup (IF conn = "open" THEN {Msg(b, Len(sent)) : b \in bodies} ELSE {})

\* mutant: a read that returned nothing is buffered too
Buffered_Always(m) == Append(responses, m)

\* lines 282-284: only the else branch appends
Buffered(m) == IF m = NoMsg THEN responses ELSE Append(responses, m)

\* one _recv_optional call returns `m`
Recv(m) ==
    /\ responses' = Buffered(m)
    /\ reads' = reads + 1

\* lines 287-293: websockets.connect succeeds
Connect ==
    /\ pc = "connect"
    /\ conn' = "open"
    /\ pc' = "send_login"
    /\ opened' = opened + 1
    /\ UNCHANGED <<fetchVars, hostVars, walkVars, normVars, args, reads, sent, responses, nav_page_id, active_id, prefixed_bound,
                   prefixed_id, refresh, final_refresh, outcome>>

\* lines 287-293, 421-428: websockets.connect raises (OSError, timeout, handshake)
ConnectFail ==
    /\ pc = "connect"
    /\ outcome' = FailHandler
    /\ pc' = "done"
    /\ UNCHANGED <<fetchVars, hostVars, walkVars, normVars, opened, args, reads, conn, sent, responses, nav_page_id, active_id, prefixed_bound,
                   prefixed_id, refresh, final_refresh>>

\* the device (or the network) closes the connection
DeviceClose ==
    /\ conn = "open"
    /\ pc /= "done"
    /\ conn' = "peer_closed"
    /\ UNCHANGED <<fetchVars, hostVars, walkVars, normVars, opened, args, reads, pc, sent, responses, nav_page_id, active_id, prefixed_bound,
                   prefixed_id, refresh, final_refresh, outcome>>

\* line 294
SendLogin ==
    /\ Send("send_login", LOGIN, "recv_greeting")
    /\ UNCHANGED <<fetchVars, hostVars, walkVars, normVars, opened, args, reads, responses, nav_page_id, active_id, prefixed_bound,
                   prefixed_id, refresh, final_refresh>>

\* lines 359-384, from the resolved active_id to the next await: the lookup
\* REFRESH, the missing-id error, or SET
AfterLookup(activeId) ==
    /\ active_id' = activeId
    /\ IF MissingId(activeId)
       THEN /\ Leave(MissingHandler)
            /\ UNCHANGED <<prefixed_bound, prefixed_id>>
       ELSE /\ prefixed_bound' = TRUE
            /\ prefixed_id' = Prefixed(activeId)
            /\ pc' = "send_set"
            /\ UNCHANGED <<conn, outcome>>

AfterPage(activeId) ==
    IF NeedsLookup(label, activeId)
    THEN /\ active_id' = activeId
         /\ pc' = "send_lookup"
         /\ UNCHANGED <<conn, outcome, prefixed_bound, prefixed_id>>
    ELSE AfterLookup(activeId)

\* lines 295-336 (and 341-384 when no page is known)
RecvGreeting ==
    /\ pc = "recv_greeting"
    /\ \E greeting \in Reads(PreSetBodies) :
        /\ Recv(greeting)
        /\ nav_page_id' = NavPageId(greeting, page_id)
        /\ IF Truthy(nav_page_id')
           THEN /\ active_id' = control_id
                /\ pc' = "send_get"
                /\ UNCHANGED <<conn, outcome, prefixed_bound, prefixed_id>>
           ELSE AfterPage(PageTarget(NoMsg, label, control_id))
    /\ UNCHANGED <<fetchVars, hostVars, walkVars, normVars, opened, args, sent, refresh, final_refresh>>

\* line 338
SendGet ==
    /\ Send("send_get", GET(nav_page_id), "recv_outer")
    /\ UNCHANGED <<fetchVars, hostVars, walkVars, normVars, opened, args, reads, responses, nav_page_id, active_id, prefixed_bound,
                   prefixed_id, refresh, final_refresh>>

\* lines 339-384
RecvOuter ==
    /\ pc = "recv_outer"
    /\ \E outer_payload \in Reads(PreSetBodies) :
        /\ Recv(outer_payload)
        /\ AfterPage(PageTarget(outer_payload, label, active_id))
    /\ UNCHANGED <<fetchVars, hostVars, walkVars, normVars, opened, args, sent, nav_page_id, refresh, final_refresh>>

\* line 361
SendLookup ==
    /\ Send("send_lookup", REFRESH, "recv_lookup")
    /\ UNCHANGED <<fetchVars, hostVars, walkVars, normVars, opened, args, reads, responses, nav_page_id, active_id, prefixed_bound,
                   prefixed_id, refresh, final_refresh>>

\* lines 362-384
RecvLookup ==
    /\ pc = "recv_lookup"
    /\ \E refresh_payload \in Reads(PreSetBodies) :
        /\ Recv(refresh_payload)
        /\ AfterLookup(LookupTarget(refresh_payload, label, active_id))
    /\ UNCHANGED <<fetchVars, hostVars, walkVars, normVars, opened, args, sent, nav_page_id, refresh, final_refresh>>

\* lines 386-388
SendSet ==
    /\ Send("send_set", SET(prefixed_id, value), "recv_set")
    /\ UNCHANGED <<fetchVars, hostVars, walkVars, normVars, opened, args, reads, responses, nav_page_id, active_id, prefixed_bound,
                   prefixed_id, refresh, final_refresh>>

\* a best-effort read whose result is only buffered
RecvOnly(at, next) ==
    /\ pc = at
    /\ \E m \in Reads(PostSetBodies) : Recv(m)
    /\ pc' = next
    /\ UNCHANGED <<fetchVars, hostVars, walkVars, normVars, opened, args, conn, sent, nav_page_id, active_id, prefixed_bound,
                   prefixed_id, refresh, final_refresh, outcome>>

\* lines 389-390 (the read and the pause)
RecvSet == RecvOnly("recv_set", "send_refresh1")

\* line 393
SendRefresh1 ==
    /\ Send("send_refresh1", REFRESH, "recv_refresh1")
    /\ UNCHANGED <<fetchVars, hostVars, walkVars, normVars, opened, args, reads, responses, nav_page_id, active_id, prefixed_bound,
                   prefixed_id, refresh, final_refresh>>

\* line 394
RecvRefresh1 == RecvOnly("recv_refresh1", "send_save")

\* mutant: the commit is left out, REFRESH is sent in its place
SendSave_Refresh ==
    /\ Send("send_save", REFRESH, "recv_save")
    /\ UNCHANGED <<fetchVars, hostVars, walkVars, normVars, opened, args, reads, responses, nav_page_id, active_id, prefixed_bound,
                   prefixed_id, refresh, final_refresh>>

\* line 397
SendSave ==
    /\ Send("send_save", SAVE1, "recv_save")
    /\ UNCHANGED <<fetchVars, hostVars, walkVars, normVars, opened, args, reads, responses, nav_page_id, active_id, prefixed_bound,
                   prefixed_id, refresh, final_refresh>>

\* line 398
RecvSave == RecvOnly("recv_save", "send_refresh2")

\* line 401
SendRefresh2 ==
    /\ Send("send_refresh2", REFRESH, "recv_refresh2")
    /\ UNCHANGED <<fetchVars, hostVars, walkVars, normVars, opened, args, reads, responses, nav_page_id, active_id, prefixed_bound,
                   prefixed_id, refresh, final_refresh>>

\* line 402
RecvRefresh2 ==
    /\ pc = "recv_refresh2"
    /\ \E m \in Reads(PostSetBodies) :
        /\ Recv(m)
        /\ refresh' = m
    /\ pc' = "send_refresh3"
    /\ UNCHANGED <<fetchVars, hostVars, walkVars, normVars, opened, args, conn, sent, nav_page_id, active_id, prefixed_bound,
                   prefixed_id, final_refresh, outcome>>

\* line 405
SendRefresh3 ==
    /\ Send("send_refresh3", REFRESH, "recv_final")
    /\ UNCHANGED <<fetchVars, hostVars, walkVars, normVars, opened, args, reads, responses, nav_page_id, active_id, prefixed_bound,
                   prefixed_id, refresh, final_refresh>>

\* lines 406-408
RecvFinal ==
    /\ pc = "recv_final"
    /\ \E m \in Reads(PostSetBodies) :
        /\ Recv(m)
        /\ final_refresh' = m
        /\ Leave(PickResult(m, refresh, responses'))
    /\ UNCHANGED <<fetchVars, hostVars, walkVars, normVars, opened, args, sent, nav_page_id, active_id, prefixed_bound,
                   prefixed_id, refresh>>

SetNext ==
    \/ Connect \/ ConnectFail \/ DeviceClose
    \/ SendLogin \/ RecvGreeting
    \/ SendGet \/ RecvOuter
    \/ SendLookup \/ RecvLookup
    \/ SendSet \/ RecvSet
    \/ SendRefresh1 \/ RecvRefresh1
    \/ SendSave \/ RecvSave
    \/ SendRefresh2 \/ RecvRefresh2
    \/ SendRefresh3 \/ RecvFinal

\* one call of set_control against a device that answers, stays silent or
\* closes the connection at any point
SpecSet == SetInit /\ [][SetNext]_vars

----------------------------------------------------------------------------
(* set_control: the properties *)

Ops(cmds) == [i \in 1..Len(cmds) |-> cmds[i].op]
SetPositions == {i \in 1..Len(sent) : sent[i].op = "SET"}
SetSent == SetPositions /= {}
\* the index of SET in `sent`; Len(sent) + 1 while SET is not sent
SetPos == IF SetSent THEN CHOOSE i \in SetPositions : TRUE ELSE Len(sent) + 1
BeforeSet == SubSeq(sent, 1, SetPos - 1)
AfterSet == SubSeq(sent, SetPos + 1, Len(sent))
Ended == pc = "done"
\* the messages buffered by a read made after SET was sent
PostSetFrames == {i \in 1..Len(responses) : SetSent /\ responses[i].after >= SetPos}
\* the message returned by the read that followed the i-th command, None if
\* that read returned nothing
ResponseTo(i) ==
    IF \E j \in 1..Len(responses) : responses[j].after = i
    THEN responses[CHOOSE j \in 1..Len(responses) : responses[j].after = i]
    ELSE NoMsg

\* C1 (as claimed): a call ended by a closure that came after SET was sent
\* returns, without raising, the last buffered response, or None when nothing
\* was buffered.
C1_ClosedAfterSetReturns ==
    (Ended /\ outcome.via = "closed" /\ SetSent) =>
        /\ outcome.kind = "returned"
        /\ outcome.result = (IF responses /= <<>> THEN Last(responses) ELSE NoMsg)

\* C2 (as claimed): a call ended by a closure that came before SET was sent
\* raises ControlCommandError.
C2_ClosedBeforeSetRejected ==
    (Ended /\ outcome.via = "closed" /\ ~SetSent) =>
        /\ outcome.kind = "raised"
        /\ outcome.error = "ControlCommandError"

\* C3: SET is sent at most once; what is sent after it is always a prefix of
\* REFRESH, SAVE;1, REFRESH, REFRESH, each command followed by one read before
\* the next goes out; a run that sent SET ends at its return statement with
\* exactly these four sent, or in the handler of a closed connection.
ConfirmOps == <<"REFRESH", "SAVE;1", "REFRESH", "REFRESH">>
C3_ConfirmSequence ==
    /\ Cardinality(SetPositions) <= 1
    /\ SetSent =>
        /\ Len(AfterSet) <= Len(ConfirmOps)
        /\ Ops(AfterSet) = SubSeq(ConfirmOps, 1, Len(AfterSet))
        /\ Len(sent) - reads \in {0, 1}
        /\ Len(sent) - reads = 1 <=> (~Ended /\ pc \in {"recv_set", "recv_refresh1", "recv_save",
                                                      "recv_refresh2", "recv_final"})
    /\ (Ended /\ SetSent) =>
        /\ outcome.via \in {"return", "closed"}
        /\ outcome.via = "return" => (Ops(AfterSet) = ConfirmOps /\ reads = Len(sent))
    /\ (Ended /\ outcome.via = "return") => SetSent

C3_Witness ==
    Ended /\ outcome.via = "return" /\ Ops(AfterSet) = ConfirmOps

\* C4 (as claimed): every command sent before SET is LOGIN or GET.
C4_OnlyLoginAndGetBeforeSet ==
    SetSent => \A i \in 1..Len(BeforeSet) : BeforeSet[i].op \in {"LOGIN", "GET"}

\* C4 (amended): what is sent before SET is LOGIN, then at most one GET for the
\* navigation page, then at most one REFRESH, the label lookup, which is sent
\* only when a label was given and the caller gave no control id; SAVE;1 is
\* never sent before SET.
C4_PreSetOrder ==
    LET pre == BeforeSet
        gets == {i \in 1..Len(pre) : pre[i].op = "GET"}
        lookups == {i \in 1..Len(pre) : pre[i].op = "REFRESH"}
    IN  /\ Len(pre) >= 1 => pre[1] = LOGIN
        /\ \A i \in 1..Len(pre) : pre[i].op \in {"LOGIN", "GET", "REFRESH"}
        /\ \A i \in 2..Len(pre) : pre[i].op /= "LOGIN"
        /\ Cardinality(gets) <= 1 /\ Cardinality(lookups) <= 1
        /\ \A i \in gets : i = 2 /\ pre[i] = GET(nav_page_id) /\ Truthy(nav_page_id)
        /\ \A i \in lookups : i = Len(pre) /\ Truthy(label) /\ ~Truthy(control_id)

C4_Witness ==
    SetSent /\ Ops(BeforeSet) = <<"LOGIN", "GET", "REFRESH">>

\* C5: SET is sent, and the confirm sequence entered, only with a resolved
\* target id; a run that resolves none ends at line 380 with
\* ControlCommandError, having sent neither SET nor SAVE;1 and having logged in
\* once (one session, no retry).
C5_MissingIdFails ==
    /\ (SetSent \/ pc \in {"send_set", "recv_set"}) => Truthy(active_id)
    /\ outcome.via = "missing" =>
        /\ Ended /\ ~Truthy(active_id)
        /\ outcome.kind = "raised" /\ outcome.error = "ControlCommandError"
        /\ \A i \in 1..Len(sent) : sent[i].op \notin {"SET", "SAVE;1"}
        /\ Cardinality({i \in 1..Len(sent) : sent[i].op = "LOGIN"}) = 1
        /\ conn = "closed"

C5_Witness ==
    outcome.via = "missing" /\ Truthy(label) /\ Ops(sent) = <<"LOGIN", "GET", "REFRESH">>

\* C6 (as claimed): whatever set_control raises is ControlCommandError.
C6_OnlyControlCommandError ==
    outcome.kind = "raised" => outcome.error = "ControlCommandError"

\* C7: a run that reaches its return statement returns the response to the last
\* REFRESH if non-empty, else the response to the REFRESH sent after SAVE;1 if
\* non-empty, else the most recently buffered response, else None.
C7_ResultPreference ==
    (Ended /\ outcome.via = "return") =>
        LET n == Len(sent)
        IN  /\ Ops(SubSeq(sent, n - 2, n)) = <<"SAVE;1", "REFRESH", "REFRESH">>
            /\ outcome.kind = "returned"
            /\ outcome.result =
                 (IF MsgTruthy(ResponseTo(n)) THEN ResponseTo(n)
                  ELSE IF MsgTruthy(ResponseTo(n - 1)) THEN ResponseTo(n - 1)
                  ELSE IF responses /= <<>> THEN Last(responses)
                  ELSE NoMsg)

\* the last REFRESH was answered by an empty frame, the one before by a
\* non-empty one, which is returned although it is not the last buffered
C7_Witness ==
    /\ Ended /\ outcome.via = "return"
    /\ ResponseTo(Len(sent)) /= NoMsg /\ ~MsgTruthy(ResponseTo(Len(sent)))
    /\ MsgTruthy(ResponseTo(Len(sent) - 1))
    /\ outcome.result = ResponseTo(Len(sent) - 1)
    /\ outcome.result /= Last(responses)

\* C8 (as claimed): a non-empty frame returned by a run that sent SET was
\* received after SET had been sent.
C8_ResultIsPostWrite ==
    (outcome.kind = "returned" /\ MsgTruthy(outcome.result) /\ SetSent) =>
        outcome.result.after >= SetPos

\* C8 (amended): a non-empty frame that is returned was received after SET had
\* been sent whenever some read made after SET returned a frame; otherwise it is
\* the last frame received before SET (the greeting, the page or the lookup).
C8_PostWriteWhenAnswered ==
    (outcome.kind = "returned" /\ MsgTruthy(outcome.result)) =>
        IF PostSetFrames /= {}
        THEN outcome.result.after >= SetPos
        ELSE outcome.result = Last(responses)

C8_Witness ==
    /\ outcome.kind = "returned" /\ MsgTruthy(outcome.result)
    /\ PostSetFrames /= {}
    /\ \E i \in 1..Len(responses) : responses[i].after < SetPos /\ MsgTruthy(responses[i])
    /\ outcome.via = "closed"

----------------------------------------------------------------------------
(* fetch_data *)

\* bounds of the Content document the device serves
MaxGroups == 2
MaxLeaves == 2

\* the timestamp of line 125: the clock has moved on between two calls
Clock == <<"2026-11-06 09:00:00", "2026-11-06 09:01:00">>
Now == <<Clock[calls]>>

GroupLabels == {RStr(<<"g">>), RStr(<<" ", "g">>), RStr(<<>>)}
LeafChoices == {<<<<"a">>, <<"1">>>>, <<<<"a">>, <<"2">>>>, <<<<"b">>, <<"1">>>>}

InfoNode(name)  == Node(RStr(<<name>>), <<"i1">>, <<>>, <<>>)
SettingsNode    == Node(RStr(<<"Einstellungen">>), <<"s1">>, <<>>,
                        << Node(RStr(<<"Betriebsart">>), <<"p2">>, <<>>, <<>>) >>)
\* the top-level items of the Navigation document: none, no Information
\* branch (one item, several items), the branch under each alias
NavFrames ==
    { <<>>,
      << SettingsNode >>,
      << SettingsNode, Node(RStr(<<"Zugang">>), <<"z1">>, <<>>, <<>>) >>,
      << InfoNode("Informationen"), SettingsNode >>,
      << SettingsNode, InfoNode("Information") >> }

FetchInit ==
    /\ SetIdle
    /\ navFrame \in NavFrames
    /\ contentFrame = <<>>
    /\ fpc = "build"
    /\ fconn = "none"
    /\ fsent = <<>>
    /\ res = <<>>
    /\ foutcome = [kind |-> "running", error |-> ""]
    /\ fn = "fetch_data"
    /\ calls = 1
    /\ prev = NoCall
    /\ opened = 0
    /\ HostIdle
    /\ WalkIdle
    /\ NormIdle

TotalLeaves(groups) ==
    LET RECURSIVE Sum(_)
        Sum(i) == IF i = 0 THEN 0 ELSE Len(groups[i].leaves) + Sum(i - 1)
    IN  Sum(Len(groups))

\* the device's page grows by one group
AddGroup ==
    /\ fpc = "build"
    /\ Len(contentFrame) < MaxGroups
    /\ \E g \in GroupLabels :
        contentFrame' = Append(contentFrame, [name |-> g, leaves |-> <<>>])
    /\ UNCHANGED <<setVars, hostVars, walkVars, normVars, opened, fn, calls, prev, navFrame, fpc, fconn, fsent, res, foutcome>>

\* the device's last group grows by one leaf
AddLeaf ==
    /\ fpc = "build"
    /\ contentFrame /= <<>>
    /\ TotalLeaves(contentFrame) < MaxLeaves
    /\ \E lf \in LeafChoices :
        contentFrame' = [contentFrame EXCEPT ![Len(contentFrame)].leaves =
                            Append(@, Node(RStr(lf[1]), <<>>, lf[2], <<>>))]
    /\ UNCHANGED <<setVars, hostVars, walkVars, normVars, opened, fn, calls, prev, navFrame, fpc, fconn, fsent, res, foutcome>>

\* the decoded answer to GET;<information id>: d.get('Content', {}).get('item', [])
ContentItems(groups) ==
    XmlItems([i \in 1..Len(groups) |-> Node(groups[i].name, <<>>, <<>>, groups[i].leaves)])

\* mutant: only the German name of the branch is known
IsInformation_German(c) == c.name.t = "str" /\ c.name.s = <<"Informationen">>

\* line 101: the name is compared as decoded, neither normalized nor stripped
IsInformation(c) == c.name.t = "str" /\ c.name.s \in {<<"Informationen">>, <<"Information">>}

\* mutant: a key that is already present keeps its value
Put_KeepFirst(m, key, val) ==
    [k \in DOMAIN m \cup {key} |-> IF k \in DOMAIN m THEN m[k] ELSE val]

\* res[key] = value
Put(m, key, val) == [k \in DOMAIN m \cup {key} |-> IF k = key THEN val ELSE m[k]]

\* lines 117-124: the leaves of one group, in order
RECURSIVE PutLeaves(_, _, _, _)
PutLeaves(m, gname, items, i) ==
    IF i > Len(items) THEN m
    ELSE LET name == Strip(_normalize_label(items[i].name))
             key == gname \o <<"_">> \o name
         IN  PutLeaves(IF Truthy(gname) THEN Put(m, key, items[i].value) ELSE m,
                       gname, items, i + 1)

\* lines 110-124: the groups, in order
RECURSIVE PutGroups(_, _, _)
PutGroups(m, content_items, i) ==
    IF i > Len(content_items) THEN m
    ELSE LET group == content_items[i]
             gname == Strip(_normalize_label(group.name))
             items == WrapDict(group.item)
         IN  PutGroups(IF items.k = "list" THEN PutLeaves(m, gname, items.v, 1) ELSE m,
                       content_items, i + 1)

\* lines 106-126
Readings(groups) ==
    Put(PutGroups(<<>>, WrapDict(ContentItems(groups)).v, 1), <<"Time">>, Now)

\* mutant: the connection is left as it is when the call ends
FEnd_KeepOpen(kind, err) ==
    /\ foutcome' = [kind |-> kind, error |-> err]
    /\ fpc' = "done"
    /\ fconn' = fconn

\* the call ends: leaving "async with websockets.connect(...)" closes the
\* connection if one was opened
FEnd(kind, err) ==
    /\ foutcome' = [kind |-> kind, error |-> err]
    /\ fpc' = "done"
    /\ fconn' = IF fconn = "none" THEN "none" ELSE "closed"

\* the frames are complete; fetch_data is called; line 93: connect succeeds
FConnect ==
    /\ fpc \in {"build", "connect"}
    /\ fpc' = "send_login"
    /\ fconn' = "open"
    /\ opened' = opened + 1
    /\ UNCHANGED <<setVars, hostVars, walkVars, normVars, fn, calls, prev, navFrame, contentFrame, fsent, res, foutcome>>

\* line 93: connect raises
FConnectFail ==
    /\ fpc \in {"build", "connect"}
    /\ FEnd("raised", "OSError")
    /\ UNCHANGED <<setVars, hostVars, walkVars, normVars, opened, fn, calls, prev, navFrame, contentFrame, fsent, res>>

FDeviceClose ==
    /\ fconn = "open"
    /\ fpc /= "done"
    /\ fconn' = "peer_closed"
    /\ UNCHANGED <<setVars, hostVars, walkVars, normVars, opened, fn, calls, prev, navFrame, contentFrame, fpc, fsent, res, foutcome>>

\* line 95
FSendLogin ==
    /\ fpc = "send_login"
    /\ IF fconn = "open"
       THEN /\ fsent' = Append(fsent, LOGIN)
            /\ fpc' = "recv_greeting"
            /\ UNCHANGED <<fconn, foutcome>>
       ELSE /\ FEnd("raised", "ConnectionClosed")
            /\ UNCHANGED fsent
    /\ UNCHANGED <<setVars, hostVars, walkVars, normVars, opened, fn, calls, prev, navFrame, contentFrame, res>>

\* lines 96-104: the greeting is read and decoded, the Information branch
\* looked up, and GET sent for it
FRecvGreeting ==
    /\ fpc = "recv_greeting"
    /\ IF fconn /= "open"
       THEN /\ FEnd("raised", "ConnectionClosed")
            /\ UNCHANGED fsent
       ELSE LET coll == XmlItems(navFrame)
                nav_items == WrapDict(coll).v
                i == FirstIndex(nav_items, IsInformation, 1)
            IN  IF coll.k = "none"
                THEN \* d['Navigation']['item']
                     /\ FEnd("raised", "KeyError")
                     /\ UNCHANGED fsent
                ELSE IF i = 0
                THEN \* return {}
                     /\ FEnd("returned", "")
                     /\ UNCHANGED fsent
                ELSE /\ fsent' = Append(fsent, GET(nav_items[i].id))
                     /\ fpc' = "recv_content"
                     /\ UNCHANGED <<fconn, foutcome>>
    /\ UNCHANGED <<setVars, hostVars, walkVars, normVars, opened, fn, calls, prev, navFrame, contentFrame, res>>

\* lines 105-126
FRecvContent ==
    /\ fpc = "recv_content"
    /\ IF fconn /= "open"
       THEN /\ FEnd("raised", "ConnectionClosed")
            /\ UNCHANGED res
       ELSE /\ res' = Readings(contentFrame)
            /\ FEnd("returned", "")
    /\ UNCHANGED <<setVars, hostVars, walkVars, normVars, opened, fn, calls, prev, navFrame, contentFrame, fsent>>

FetchNext ==
    \/ AddGroup \/ AddLeaf
    \/ FConnect \/ FConnectFail \/ FDeviceClose
    \/ FSendLogin \/ FRecvGreeting \/ FRecvContent

\* one call of fetch_data against a device serving a Navigation document and
\* a Content page
SpecFetch == FetchInit /\ [][FetchNext]_vars

\* mutant: the second call goes on where the first left off, on its session
FCallAgain_SameSession ==
    /\ fn = "fetch_data" /\ fpc = "done" /\ calls = 1
    /\ prev' = [kind |-> foutcome.kind, sent |-> fsent, res |-> res]
    /\ calls' = 2
    /\ fpc' = "send_login"
    /\ foutcome' = [kind |-> "running", error |-> ""]
    /\ UNCHANGED <<setVars, hostVars, walkVars, normVars, opened, fn, navFrame, contentFrame, fconn, fsent, res>>

\* the first call has ended and fetch_data is called again (lines 90-94): new
\* locals, a new connection; what the first call sent and returned is kept
\* for comparison
FCallAgain ==
    /\ fn = "fetch_data" /\ fpc = "done" /\ calls = 1
    /\ prev' = [kind |-> foutcome.kind, sent |-> fsent, res |-> res]
    /\ calls' = 2
    /\ fpc' = "connect"
    /\ fconn' = "none"
    /\ fsent' = <<>>
    /\ res' = <<>>
    /\ foutcome' = [kind |-> "running", error |-> ""]
    /\ opened' = 0
    /\ UNCHANGED <<setVars, hostVars, walkVars, normVars, fn, navFrame, contentFrame>>

\* two calls of fetch_data, one after the other, against a device whose
\* frames stay as they are
SpecFetchTwice == FetchInit /\ [][FetchNext \/ FCallAgain]_vars

----------------------------------------------------------------------------
(* fetch_data: the properties *)

\* the call went through to the decoding of the Content frame and returned
ReadingsReturned ==
    fpc = "done" /\ foutcome.kind = "returned" /\ Len(fsent) = 2

\* (i, j): leaf j of group i, for the groups with a non-empty label
Producers ==
    {ij \in (1..Len(contentFrame)) \X (1..MaxLeaves + 1) :
        /\ ij[2] <= Len(contentFrame[ij[1]].leaves)
        /\ Truthy(Strip(_normalize_label(contentFrame[ij[1]].name)))}
KeyOf(ij) ==
    Strip(_normalize_label(contentFrame[ij[1]].name)) \o <<"_">>
        \o Strip(_normalize_label(contentFrame[ij[1]].leaves[ij[2]].name))
ValueOf(ij) == contentFrame[ij[1]].leaves[ij[2]].value
\* document order
Later(p, q) == q[1] > p[1] \/ (q[1] = p[1] /\ q[2] > p[2])

GreetingDecoded == fpc = "done" /\ foutcome.error \notin {"OSError", "ConnectionClosed"}
C10_NoInformationEmpty ==
    (GreetingDecoded /\ FirstIndex(navFrame, IsInformation, 1) = 0) =>
        /\ foutcome.kind = "returned"
        /\ res = <<>>
        /\ \A i \in 1..Len(fsent) : fsent[i].op /= "GET"

\* all keys of a mapping but Time
NoTime(m) == [k \in DOMAIN m \ {<<"Time">>} |-> m[k]]

\* C12: when both of two consecutive calls return, the second has sent the
\* commands the first sent and returns a mapping equal to the first's on every
\* key except Time; the second call logs in on a session of its own, on which
\* nothing was sent before, whatever way the first call ended.
C12_SecondCallSame ==
    /\ (calls = 2 /\ fpc = "send_login") =>
        (fsent = <<>> /\ res = <<>> /\ opened = 1 /\ fconn \in {"open", "peer_closed"})
    /\ (calls = 2 /\ fpc = "done" /\ foutcome.kind = "returned" /\ prev.kind = "returned") =>
        /\ fsent = prev.sent
        /\ DOMAIN res = DOMAIN prev.res
        /\ NoTime(res) = NoTime(prev.res)

\* both calls returned readings; only the timestamps differ
C12_Witness ==
    /\ calls = 2 /\ fpc = "done" /\ foutcome.kind = "returned" /\ prev.kind = "returned"
    /\ Cardinality(DOMAIN res) = 3
    /\ res[<<"Time">>] /= prev.res[<<"Time">>]

----------------------------------------------------------------------------
(* fetch_controls *)

\* <option value="v">text</option> decodes to a dict with '@value' and '#text'
\* (`child` is a <value> child of the option, read when there is no text);
\* <option>text</option>, without attribute, decodes to a plain str
Opt(v, text)  == [t |-> "dict", value |-> v, text |-> text, child |-> <<>>]
OptStr(text)  == [t |-> "str", value |-> <<>>, text |-> text, child |-> <<>>]
\* an item of a Content page: name (raw label), @id, value, raw, <option>s
Item(name, id, val, opts) ==
    [name |-> name, id |-> id, value |-> val, raw |-> <<>>, option |-> XmlItems(opts)]

Betriebsart(id) == Node(RStr(<<"Betriebsart">>), id, <<>>, <<>>)
\* the top-level items of the Navigation document fetch_controls may meet
CtlNavFrames ==
    { <<>>,
      << InfoNode("Informationen") >>,
      << InfoNode("Informationen"), Node(RStr(<<"Einstellungen">>), <<"s1">>, <<>>, <<>>) >>,
      << Node(RStr(<<"Einstellungen">>), <<"s1">>, <<>>, << Betriebsart(<<>>) >>) >>,
      << InfoNode("Information"),
         Node(RStr(<<"Settings">>), <<"s1">>, <<>>, << Betriebsart(<<"p2">>) >>) >>,
      << Node(RList(<<RStr(<<" ", "Einstellungen">>)>>), <<"s1">>, <<>>,
              << Node(RStr(<<"Zugang">>), <<"z1">>, <<>>, <<>>), Betriebsart(<<"p3">>) >>),
         InfoNode("Informationen") >> }

Heizkreis ==
    Item(RStr(<<"Heizkreis">>), <<"c1">>, <<"Automatik">>,
         << Opt(<<"0">>, <<"Automatik">>), Opt(<<"1">>, <<" ", "Aus">>) >>)
\* the items of the Betriebsart page: none; the control Heizkreis; a control
\* and an item with a value and no option; an option-bearing item without a
\* name and one whose first option has no attribute; an item with a name only;
\* a control whose second option has no text (<option value="2"/>)
CtlPages ==
    { <<>>,
      << Heizkreis >>,
      << Heizkreis, Item(RStr(<<"Status">>), <<"c2">>, <<"Ein">>, <<>>) >>,
      << Item(RNone, <<"c3">>, <<"Aus">>, << Opt(<<"0">>, <<"Aus">>) >>),
         Item(RStr(<<"Warmwasser">>), <<"c4">>, <<"Party">>,
              << OptStr(<<"Aus">>), Opt(<<"2">>, <<"Party">>) >>) >>,
      << Item(RStr(<<"Menue">>), <<"c5">>, <<>>, <<>>), Heizkreis >>,
      << Item(RStr(<<"Lueftung">>), <<"c6">>, <<"Stufe 1">>,
              << Opt(<<"1">>, <<"Stufe 1">>), Opt(<<"2">>, <<>>) >>) >> }

CtlInit ==
    /\ SetIdle
    /\ HostIdle
    /\ WalkIdle
    /\ NormIdle
    /\ navFrame \in CtlNavFrames
    /\ contentFrame \in CtlPages
    /\ fpc = "c_connect"
    /\ fconn = "none"
    /\ fsent = <<>>
    /\ res = <<>>
    /\ foutcome = [kind |-> "running", error |-> ""]
    /\ fn = "fetch_controls"
    /\ calls = 1
    /\ prev = NoCall
    /\ opened = 0

\* lines 141-143
_match_name(node, candidates) == Strip(_normalize_label(node.name)) \in candidates

CtlIsSettings(c) == _match_name(c, {<<"Einstellungen">>, <<"Settings">>})
CtlIsOperate(c)  == _match_name(c, {<<"Betriebsart">>})

\* lines 173-184
IsDictOption(opt) == opt.t = "dict"
NormalizedOption(opt) ==
    [value |-> opt.value,
     label |-> Strip(IF Truthy(opt.text) THEN opt.text ELSE opt.child)]
normalized_options(item) ==
    LET options == WrapDict(item.option)
        dicts == IF options.k = "list" THEN SelectSeq(options.v, IsDictOption) ELSE <<>>
    IN  [i \in 1..Len(dicts) |-> NormalizedOption(dicts[i])]

\* lines 185-192
ControlOf(item, operate_id) ==
    [id |-> item.id, name |-> Strip(_normalize_label(item.name)), value |-> item.value,
     raw |-> item.raw, options |-> normalized_options(item), page_id |-> operate_id]

\* lines 170-172
HasName(item) == Truthy(Strip(_normalize_label(item.name)))

\* lines 162-194: the controls of the decoded Betriebsart page
Controls(page, operate_id) ==
    LET items == WrapDict(XmlItems(page)).v
        named == SelectSeq(items, HasName)
    IN  [i \in 1..Len(named) |-> ControlOf(named[i], operate_id)]

\* line 133: connect succeeds
CConnect ==
    /\ fpc = "c_connect"
    /\ fpc' = "c_send_login"
    /\ fconn' = "open"
    /\ opened' = opened + 1
    /\ UNCHANGED <<setVars, hostVars, walkVars, normVars, fn, calls, prev, navFrame, contentFrame, fsent, res, foutcome>>

\* line 133: connect raises
CConnectFail ==
    /\ fpc = "c_connect"
    /\ FEnd("raised", "OSError")
    /\ UNCHANGED <<setVars, hostVars, walkVars, normVars, opened, fn, calls, prev, navFrame, contentFrame, fsent, res>>

\* line 134
CSendLogin ==
    /\ fpc = "c_send_login"
    /\ IF fconn = "open"
       THEN /\ fsent' = Append(fsent, LOGIN)
            /\ fpc' = "c_recv_greeting"
            /\ UNCHANGED <<fconn, foutcome>>
       ELSE /\ FEnd("raised", "ConnectionClosed")
            /\ UNCHANGED fsent
    /\ UNCHANGED <<setVars, hostVars, walkVars, normVars, opened, fn, calls, prev, navFrame, contentFrame, res>>

\* lines 135-158: the greeting is read and decoded, Settings and Betriebsart
\* looked up, and GET sent for the page
CRecvGreeting ==
    /\ fpc = "c_recv_greeting"
    /\ IF fconn /= "open"
       THEN /\ FEnd("raised", "ConnectionClosed")
            /\ UNCHANGED fsent
       ELSE LET coll == XmlItems(navFrame)
                nav_items == WrapDict(coll).v
                si == FirstIndex(nav_items, CtlIsSettings, 1)
                settings_items == IF si = 0 THEN <<>> ELSE WrapDict(nav_items[si].item).v
                oi == FirstIndex(settings_items, CtlIsOperate, 1)
            IN  IF coll.k = "none"
                THEN \* d['Navigation']['item']
                     /\ FEnd("raised", "KeyError")
                     /\ UNCHANGED fsent
                ELSE IF si = 0 \/ oi = 0 \/ ~Truthy(settings_items[oi].id)
                THEN \* return []
                     /\ FEnd("returned", "")
                     /\ UNCHANGED fsent
                ELSE /\ fsent' = Append(fsent, GET(settings_items[oi].id))
                     /\ fpc' = "c_recv_page"
                     /\ UNCHANGED <<fconn, foutcome>>
    /\ UNCHANGED <<setVars, hostVars, walkVars, normVars, opened, fn, calls, prev, navFrame, contentFrame, res>>

\* lines 159-194
CRecvPage ==
    /\ fpc = "c_recv_page"
    /\ IF fconn /= "open"
       THEN /\ FEnd("raised", "ConnectionClosed")
            /\ UNCHANGED res
       ELSE /\ res' = Controls(contentFrame, Last(fsent).id)
            /\ FEnd("returned", "")
    /\ UNCHANGED <<setVars, hostVars, walkVars, normVars, opened, fn, calls, prev, navFrame, contentFrame, fsent>>

CtlNext ==
    \/ CConnect \/ CConnectFail \/ FDeviceClose
    \/ CSendLogin \/ CRecvGreeting \/ CRecvPage

\* one call of fetch_controls against a device serving a Navigation document
\* and the Betriebsart page
SpecControls == CtlInit /\ [][CtlNext]_vars

----------------------------------------------------------------------------
(* fetch_controls: the properties *)

\* the call got past the decoding of the greeting and ended
CtlDecoded ==
    fn = "fetch_controls" /\ fpc = "done" /\ foutcome.error \notin {"OSError", "ConnectionClosed"}

\* the @id of the Betriebsart page under the Settings branch of the device's
\* Navigation document; <<>> when the branch, the page or its id is missing
OperateId ==
    LET si == FirstIndex(navFrame, CtlIsSettings, 1)
        kids == IF si = 0 THEN <<>> ELSE WrapDict(navFrame[si].item).v
        oi == FirstIndex(kids, CtlIsOperate, 1)
    IN  IF oi = 0 THEN <<>> ELSE kids[oi].id

HasOptions(item) == item.option.k /= "none"
\* the option-bearing items of the device's Betriebsart page, in page order
OptionBearing == SelectSeq(contentFrame, HasOptions)
OptionsOf(item) == WrapDict(item.option).v

\* C13 (as claimed): fetch_controls sends one GET, for the id of the
\* Betriebsart page under Settings, and returns the option-bearing items of
\* that page, each with its value, its options in device order and the id of
\* the page; when Settings, Betriebsart or its id is missing it returns the
\* empty list and sends no GET.
C13_ControlsOfPage ==
    CtlDecoded =>
        /\ foutcome.kind = "returned"
        /\ IF Truthy(OperateId)
           THEN /\ fsent = <<LOGIN, GET(OperateId)>>
                /\ Len(res) = Len(OptionBearing)
                /\ \A i \in 1..Len(res) :
                    /\ res[i].value = OptionBearing[i].value
                    /\ res[i].page_id = OperateId
                    /\ Len(res[i].options) = Len(OptionsOf(OptionBearing[i]))
                    /\ \A j \in 1..Len(res[i].options) :
                        res[i].options[j].value = OptionsOf(OptionBearing[i])[j].value
           ELSE /\ res = <<>>
                /\ fsent = <<LOGIN>>

----------------------------------------------------------------------------
(* fetch_setpoints *)

\* the key 'value' of a decoded node: absent, or present with its text
\* (<value/> decodes to None: present, with no text)
Absent == [in |-> FALSE, v |-> <<>>]
Val(v) == [in |-> TRUE, v |-> v]

\* a node of a decoded page: name (raw label), @id, value, <option>s, children
SNode(name, id, val, opts, kids) ==
    [name |-> name, id |-> id, value |-> val, raw |-> <<>>,
     option |-> XmlItems(opts), item |-> XmlItems(kids)]

\* lines 206-211 (the model writes "ue" for the u-umlaut of the labels)
targets ==
    { <<"Warmwasser-Soll">>, <<"Rueckl.-Begr.">>, <<"Min. Rueckl.Solltemp.">>,
      <<"Max.Warmwassertemp.">> }

\* the top-level items of the Navigation document fetch_setpoints may meet
SpNavFrames ==
    { <<>>,
      << Node(RStr(<<"Zugang">>), <<"z1">>, <<>>, <<>>) >>,
      << SettingsNode >>,
      << InfoNode("Information") >>,
      << InfoNode("Informationen"), SettingsNode >>,
      << Node(RStr(<<"Settings">>), <<"s2">>, <<>>, <<>>), InfoNode("Information") >>,
      << Node(RList(<<RStr(<<"Einstellungen">>)>>), <<"s1">>, <<>>, <<>>),
         InfoNode("Informationen") >> }

\* the items of a Content page: none; one setpoint; a group holding a setpoint
\* and another control; a node with a name only, a setpoint with options and
\* no value, a value without @id; a setpoint whose <value/> is empty; one
\* label on two nodes of the page
SpPages ==
    { <<>>,
      << SNode(RStr(<<"Warmwasser-Soll">>), <<"w1">>, Val(<<"50">>), <<>>, <<>>) >>,
      << SNode(RStr(<<"Temperaturen">>), <<"g1">>, Absent, <<>>,
               << SNode(RStr(<<" ", "Warmwasser-Soll">>), <<"w2">>, Val(<<"48">>), <<>>, <<>>),
                  SNode(RList(<<RStr(<<"Heizkurve">>)>>), <<"h1">>, Val(<<"30">>), <<>>, <<>>) >>) >>,
      << SNode(RStr(<<"Menue">>), <<"m1">>, Absent, <<>>, <<>>),
         SNode(RStr(<<"Rueckl.-Begr.">>), <<"r1">>, Absent, << Opt(<<"0">>, <<"Aus">>) >>, <<>>),
         SNode(RStr(<<"Max.Warmwassertemp.">>), <<>>, Val(<<"65">>), <<>>, <<>>) >>,
      << SNode(RStr(<<"Min. Rueckl.Solltemp.">>), <<"e1">>, Val(<<>>), <<>>, <<>>) >>,
      << SNode(RStr(<<"Warmwasser-Soll">>), <<"w3">>, Val(<<"51">>), <<>>, <<>>),
         SNode(RStr(<<"Gruppe">>), <<"g2">>, Absent, <<>>,
               << SNode(RStr(<<"Warmwasser-Soll">>), <<"w4">>, Val(<<"52">>), <<>>, <<>>) >>) >> }

SpInit ==
    /\ SetIdle
    /\ HostIdle
    /\ WalkIdle
    /\ NormIdle
    /\ navFrame \in SpNavFrames
    /\ contentFrame \in [settings : SpPages, information : SpPages]
    /\ fpc = "s_connect"
    /\ fconn = "none"
    /\ fsent = <<>>
    /\ res = <<>>
    /\ foutcome = [kind |-> "running", error |-> ""]
    /\ fn = "fetch_setpoints"
    /\ calls = 1
    /\ prev = NoCall
    /\ opened = 0

\* lines 219-221: the name, the first element of a list
WalkName(node) ==
    IF node.name.t = "list"
    THEN (IF node.name.l = <<>> THEN RNone ELSE Head(node.name.l))
    ELSE node.name

\* truthiness of a raw label: a non-empty str, list or dict
RawTruthy(raw) == IF raw.t = "str" THEN Truthy(raw.s) ELSE raw.l /= <<>>

\* lines 225-232
Setpoint(node, lbl, parent_id) ==
    [id |-> node.id, name |-> lbl, value |-> node.value.v, raw |-> node.raw,
     options |-> node.option, page_id |-> parent_id]

\* line 222
IsControl(node) ==
    /\ RawTruthy(WalkName(node))
    /\ Truthy(node.id)
    /\ (node.value.in \/ node.option.k /= "none")

\* lines 216-237: walk(node, parent_id) on a dict, then on its children
RECURSIVE walk(_, _, _)
RECURSIVE walkList(_, _, _)
walk(found, node, parent_id) ==
    LET current_id == IF Truthy(node.id) THEN node.id ELSE parent_id
        lbl == Strip(_normalize_label(WalkName(node)))
        here == IF IsControl(node) /\ Truthy(lbl)
                THEN Put(found, lbl, Setpoint(node, lbl, parent_id))
                ELSE found
    IN  walkList(here, node.item.v, current_id)

walkList(found, nodes, parent_id) ==
    IF nodes = <<>> THEN found
    ELSE walkList(walk(found, Head(nodes), parent_id), Tail(nodes), parent_id)

\* lines 213-240: the root and the Content element have no @id and no name
collect_controls(page) == walkList(<<>>, page, <<>>)

\* mutant: an entry already present is kept
Update_KeepOld(m, n) ==
    [k \in DOMAIN m \cup DOMAIN n |-> IF k \in DOMAIN m THEN m[k] ELSE n[k]]

\* dict.update
Update(m, n) == [k \in DOMAIN m \cup DOMAIN n |-> IF k \in DOMAIN n THEN n[k] ELSE m[k]]

\* lines 253 and 260: the name is compared as decoded
SpIsSettings(c) == c.name.t = "str" /\ c.name.s \in {<<"Einstellungen">>, <<"Settings">>}
SpIsInformation(c) == c.name.t = "str" /\ c.name.s \in {<<"Informationen">>, <<"Information">>}

\* line 242: connect succeeds
SConnect ==
    /\ fpc = "s_connect"
    /\ fpc' = "s_send_login"
    /\ fconn' = "open"
    /\ opened' = opened + 1
    /\ UNCHANGED <<setVars, hostVars, walkVars, normVars, fn, calls, prev, navFrame, contentFrame, fsent, res, foutcome>>

\* line 242: connect raises
SConnectFail ==
    /\ fpc = "s_connect"
    /\ FEnd("raised", "OSError")
    /\ UNCHANGED <<setVars, hostVars, walkVars, normVars, opened, fn, calls, prev, navFrame, contentFrame, fsent, res>>

\* line 243
SSendLogin ==
    /\ fpc = "s_send_login"
    /\ IF fconn = "open"
       THEN /\ fsent' = Append(fsent, LOGIN)
            /\ fpc' = "s_recv_greeting"
            /\ UNCHANGED <<fconn, foutcome>>
       ELSE /\ FEnd("raised", "ConnectionClosed")
            /\ UNCHANGED fsent
    /\ UNCHANGED <<setVars, hostVars, walkVars, normVars, opened, fn, calls, prev, navFrame, contentFrame, res>>

\* lines 260-266: GET for the Information branch, or the return
ProbeInformation ==
    LET i == FirstIndex(navFrame, SpIsInformation, 1)
    IN  IF i = 0
        THEN /\ FEnd("returned", "")
             /\ UNCHANGED fsent
        ELSE /\ fsent' = Append(fsent, GET(navFrame[i].id))
             /\ fpc' = "s_recv_information"
             /\ UNCHANGED <<fconn, foutcome>>

\* lines 244-255 (and 260-266 when there is no Settings branch)
SRecvGreeting ==
    /\ fpc = "s_recv_greeting"
    /\ IF fconn /= "open"
       THEN /\ FEnd("raised", "ConnectionClosed")
            /\ UNCHANGED fsent
       ELSE LET si == FirstIndex(navFrame, SpIsSettings, 1)
            IN  IF XmlItems(navFrame).k = "none"
                THEN \* d['Navigation']['item']
                     /\ FEnd("raised", "KeyError")
                     /\ UNCHANGED fsent
                ELSE IF si = 0
                THEN ProbeInformation
                ELSE /\ fsent' = Append(fsent, GET(navFrame[si].id))
                     /\ fpc' = "s_recv_settings"
                     /\ UNCHANGED <<fconn, foutcome>>
    /\ UNCHANGED <<setVars, hostVars, walkVars, normVars, opened, fn, calls, prev, navFrame, contentFrame, res>>

\* lines 256-266
SRecvSettings ==
    /\ fpc = "s_recv_settings"
    /\ IF fconn /= "open"
       THEN /\ FEnd("raised", "ConnectionClosed")
            /\ UNCHANGED <<fsent, res>>
       ELSE /\ res' = Update(res, collect_controls(contentFrame.settings))
            /\ ProbeInformation
    /\ UNCHANGED <<setVars, hostVars, walkVars, normVars, opened, fn, calls, prev, navFrame, contentFrame>>

\* lines 263-266
SRecvInformation ==
    /\ fpc = "s_recv_information"
    /\ IF fconn /= "open"
       THEN /\ FEnd("raised", "ConnectionClosed")
            /\ UNCHANGED res
       ELSE /\ res' = Update(res, collect_controls(contentFrame.information))
            /\ FEnd("returned", "")
    /\ UNCHANGED <<setVars, hostVars, walkVars, normVars, opened, fn, calls, prev, navFrame, contentFrame, fsent>>

SpNext ==
    \/ SConnect \/ SConnectFail \/ FDeviceClose
    \/ SSendLogin \/ SRecvGreeting \/ SRecvSettings \/ SRecvInformation

\* one call of fetch_setpoints against a device serving a Navigation
\* document, the Settings page and the Information page
SpecSetpoints == SpInit /\ [][SpNext]_vars

----------------------------------------------------------------------------
(* fetch_setpoints: the properties *)

SpReturned == fn = "fetch_setpoints" /\ fpc = "done" /\ foutcome.kind = "returned"

\* C15 (as claimed): every key of the mapping fetch_setpoints returns is one
\* of the four known setpoint labels.
C15_OnlyKnownSetpoints ==
    SpReturned => DOMAIN res \subseteq targets

\* the branches of the device's Navigation document and what each page holds
SettingsAt == FirstIndex(navFrame, SpIsSettings, 1)
InformationAt == FirstIndex(navFrame, SpIsInformation, 1)
InSettings == IF SettingsAt = 0 THEN <<>> ELSE collect_controls(contentFrame.settings)
InInformation == IF InformationAt = 0 THEN <<>> ELSE collect_controls(contentFrame.information)

\* C16: a call that returns has sent LOGIN, then GET for the Settings branch
\* if there is one, then GET for the Information branch if there is one, and
\* nothing else; it returns the entries found in either page, and for a label
\* found in both the entry found in the Information page.
C16_InformationWins ==
    SpReturned =>
        /\ fsent = <<LOGIN>>
                \o (IF SettingsAt = 0 THEN <<>> ELSE <<GET(navFrame[SettingsAt].id)>>)
                \o (IF InformationAt = 0 THEN <<>> ELSE <<GET(navFrame[InformationAt].id)>>)
        /\ DOMAIN res = DOMAIN InSettings \cup DOMAIN InInformation
        /\ \A k \in DOMAIN res :
            res[k] = IF k \in DOMAIN InInformation THEN InInformation[k] ELSE InSettings[k]

\* the entries collect_controls meets in a document, in document order
RECURSIVE Entries(_, _)
Entries(nodes, parent_id) ==
    IF nodes = <<>> THEN <<>>
    ELSE LET node == Head(nodes)
             lbl == Strip(_normalize_label(WalkName(node)))
             here == IF IsControl(node) /\ Truthy(lbl)
                     THEN <<Setpoint(node, lbl, parent_id)>>
                     ELSE <<>>
             below == Entries(node.item.v, IF Truthy(node.id) THEN node.id ELSE parent_id)
         IN  here \o below \o Entries(Tail(nodes), parent_id)

NamesOf(es) == {es[i].name : i \in DOMAIN es}
\* the first entry of `es` with the label k
FirstWith(es, k) ==
    es[CHOOSE i \in DOMAIN es : es[i].name = k /\ \A j \in 1..(i - 1) : es[j].name /= k]

SettingsEntries == IF SettingsAt = 0 THEN <<>> ELSE Entries(contentFrame.settings, <<>>)
InformationEntries == IF InformationAt = 0 THEN <<>> ELSE Entries(contentFrame.information, <<>>)

\* C32 (as claimed): when several nodes of one fetched document share a label,
\* the entry fetch_setpoints returns for that label is the first one met in
\* document order (of the Information page when the label is found there,
\* of the Settings page otherwise).
C32_FirstInDocumentWins ==
    SpReturned =>
        \A k \in DOMAIN res :
            res[k] = IF k \in NamesOf(InformationEntries)
                     THEN FirstWith(InformationEntries, k)
                     ELSE FirstWith(SettingsEntries, k)

\* both pages were fetched, Information listed first in the Navigation
\* document, and a label found in both with different entries
C16_Witness ==
    /\ SpReturned
    /\ 0 < InformationAt /\ InformationAt < SettingsAt
    /\ \E k \in DOMAIN InSettings \cap DOMAIN InInformation :
        InSettings[k] /= InInformation[k] /\ res[k] = InInformation[k]

----------------------------------------------------------------------------
(* one call of any of the four entry points, which the caller may cancel *)

\* the caller cancels set_control at a wait point (connect, send, recv, the
\* pause of line 390): CancelledError is raised there; no handler of lines
\* 274-284 and 409-428 catches it; leaving lines 287-293 closes the connection
Cancel ==
    /\ pc \notin {"idle", "done"}
    /\ outcome' = Raised("CancelledError", "cancel")
    /\ pc' = "done"
    /\ conn' = IF conn = "none" THEN "none" ELSE "closed"
    /\ UNCHANGED <<fetchVars, hostVars, walkVars, normVars, opened, args, reads, sent, responses, nav_page_id,
                   active_id, prefixed_bound, prefixed_id, refresh, final_refresh>>

\* the caller cancels fetch_data, fetch_controls or fetch_setpoints at a wait
\* point; leaving the "async with" of line 93, 133 or 242 closes the connection
FCancel ==
    /\ fpc \notin {"idle", "done"}
    /\ FEnd("raised", "CancelledError")
    /\ UNCHANGED <<setVars, hostVars, walkVars, normVars, opened, fn, calls, prev, navFrame, contentFrame, fsent, res>>

ClientInit == SetInit \/ FetchInit \/ CtlInit \/ SpInit

ClientNext ==
    \/ SetNext \/ Cancel
    \/ FetchNext \/ CtlNext \/ SpNext \/ FCancel

SpecClient == ClientInit /\ [][ClientNext]_vars

----------------------------------------------------------------------------
(* any call: the properties *)

CtlReturned == fn = "fetch_controls" /\ fpc = "done" /\ foutcome.kind = "returned"

\* C14 (as claimed): every descriptor returned by fetch_controls or
\* fetch_setpoints has a value or a non-empty list of options.
C14_NoDeadEnd ==
    /\ CtlReturned =>
        \A i \in 1..Len(res) : Truthy(res[i].value) \/ res[i].options /= <<>>
    /\ SpReturned =>
        \A k \in DOMAIN res : Truthy(res[k].value) \/ res[k].options.k /= "none"

\* C19: a call opens at most one connection, sends only on a connection it
\* opened, and has ended with that connection closed, or with none opened
\* when connect failed or was cancelled, whichever way it ended.
C19_OneConnectionClosed ==
    /\ opened <= 1
    /\ (sent /= <<>> \/ fsent /= <<>>) => opened = 1
    /\ pc = "done" => conn = (IF opened = 1 THEN "closed" ELSE "none")
    /\ fpc = "done" => fconn = (IF opened = 1 THEN "closed" ELSE "none")
    /\ (pc = "done" /\ opened = 0) => outcome.via \in {"failed", "cancel"}
    /\ (fpc = "done" /\ opened = 0) => foutcome.error \in {"OSError", "CancelledError"}

\* set_control was cancelled after SET went out, and its connection is closed
C19_Witness ==
    /\ pc = "done" /\ outcome.error = "CancelledError"
    /\ SetSent /\ opened = 1 /\ conn = "closed"

\* the Navigation documents that differ from `nav` only in that some top-level
\* branches carry the other of their two names
OtherAlias(s) ==
    CASE s = <<"Information">>   -> <<"Informationen">>
      [] s = <<"Informationen">> -> <<"Information">>
      [] s = <<"Settings">>      -> <<"Einstellungen">>
      [] s = <<"Einstellungen">> -> <<"Settings">>
      [] OTHER                   -> s
Aliased(nav) == {i \in 1..Len(nav) : nav[i].name.t = "str" /\ OtherAlias(nav[i].name.s) /= nav[i].name.s}
Twins(nav) ==
    { [i \in 1..Len(nav) |->
         IF i \in S THEN [nav[i] EXCEPT !.name = RStr(OtherAlias(nav[i].name.s))] ELSE nav[i]]
      : S \in SUBSET Aliased(nav) }
TwinMsg(m) ==
    CASE m.body = "nav"       -> [m EXCEPT !.body = "nav_alias"]
      [] m.body = "nav_alias" -> [m EXCEPT !.body = "nav"]
      [] OTHER                -> m

\* what a call that is neither cut short by the connection nor cancelled sends
\* and returns against a device whose Navigation document is `nav` and whose
\* pages are those of the state
Run(cmds, kind, r) == [sent |-> cmds, kind |-> kind, res |-> r]
DataRun(nav) ==
    LET i == FirstIndex(nav, IsInformation, 1)
    IN  IF nav = <<>> THEN Run(<<LOGIN>>, "raised", <<>>)
        ELSE IF i = 0 THEN Run(<<LOGIN>>, "returned", <<>>)
        ELSE Run(<<LOGIN, GET(nav[i].id)>>, "returned", Readings(contentFrame))
ControlsRun(nav) ==
    LET si == FirstIndex(nav, CtlIsSettings, 1)
        kids == IF si = 0 THEN <<>> ELSE WrapDict(nav[si].item).v
        oi == FirstIndex(kids, CtlIsOperate, 1)
    IN  IF nav = <<>> THEN Run(<<LOGIN>>, "raised", <<>>)
        ELSE IF oi = 0 \/ ~Truthy(kids[oi].id) THEN Run(<<LOGIN>>, "returned", <<>>)
        ELSE Run(<<LOGIN, GET(kids[oi].id)>>, "returned", Controls(contentFrame, kids[oi].id))
SetpointsRun(nav) ==
    LET si == FirstIndex(nav, SpIsSettings, 1)
        ii == FirstIndex(nav, SpIsInformation, 1)
    IN  IF nav = <<>> THEN Run(<<LOGIN>>, "raised", <<>>)
        ELSE Run(<<LOGIN>> \o (IF si = 0 THEN <<>> ELSE <<GET(nav[si].id)>>)
                           \o (IF ii = 0 THEN <<>> ELSE <<GET(nav[ii].id)>>),
                 "returned",
                 Update(IF si = 0 THEN <<>> ELSE collect_controls(contentFrame.settings),
                        IF ii = 0 THEN <<>> ELSE collect_controls(contentFrame.information)))
FetchRun(nav) ==
    CASE fn = "fetch_data"      -> DataRun(nav)
      [] fn = "fetch_controls"  -> ControlsRun(nav)
      [] fn = "fetch_setpoints" -> SetpointsRun(nav)

\* the call ended, and neither the connection nor the caller cut it short
FetchCompleted ==
    fpc = "done" /\ foutcome.error \notin {"OSError", "ConnectionClosed", "CancelledError"}

\* C11: a completed call of fetch_data, fetch_controls or fetch_setpoints has
\* sent the commands and returned the result it sends and returns against any
\* device that differs only in naming a top-level branch Information instead
\* of Informationen, or Settings instead of Einstellungen, or the reverse; and
\* the page set_control opens after reading the greeting is the page it opens
\* after reading the greeting of such a device.
C11_AliasTolerant ==
    /\ FetchCompleted =>
        \A twin \in Twins(navFrame) :
            Run(fsent, foutcome.kind, res) = FetchRun(twin)
    /\ (pc \notin {"idle", "connect", "send_login", "recv_greeting"} /\ reads >= 1) =>
        nav_page_id = NavPageId(TwinMsg(ResponseTo(1)), page_id)

\* fetch_setpoints fetched both pages from a device that names its branches
\* Settings and Information
C11_Witness ==
    /\ SpReturned /\ Len(fsent) = 3
    /\ Cardinality(Twins(navFrame)) = 4
    /\ \E i \in 1..Len(navFrame) : navFrame[i].name = RStr(<<"Settings">>)

----------------------------------------------------------------------------
(* the host entities: sensor.py, select.py, number.py *)

\* the number of device sessions within which the entities are observed
MaxSessions == 6

\* the operations of the host against one device address: the coordinator's
\* poll, and the update and the write of the select and of the number entity;
\* each runs as a task of its own on the event loop
HostOps == {"poll", "sel_update", "sel_write", "num_update", "num_write"}

\* an operation at rest; `call` is the client call whose session it has open,
\* `sess` that session, `arg` the value being written, `out` how its last
\* set_control call ended, `err` what its handler raised, `shown` the
\* displayed value before and after the handler's last step
Idle == [call |-> "idle", sess |-> 0, arg |-> <<>>, out |-> "", err |-> "", shown |-> <<>>]

\* an id the device handed out for `name` in session `n`
Id(name, n) == [name |-> name, session |-> n]

\* what set_control raises (lines 380, 409-428)
SetErrors == {"ControlCommandError", "UnboundLocalError"}
\* how a call of set_control ends
SetOutcomes == {"returned"} \cup SetErrors

\* select.py lines 34-37: the (value, label) pairs of the control
MetaOptions == << <<"0", "Automatik">>, <<"1", "Aus">> >>
\* what the user may ask for
UserOptions == {"Automatik", "Aus", "Party"}
\* what the device may report as the current value of the control
DeviceOptions == {"Automatik", "Aus"}

\* the setpoint the user may ask for, and what the device may report, in
\* tenths of a degree (0: nothing that parses)
UserTemps == {453, 500}
DeviceTemps == {0, 455, 480}

\* number.py line 122, step 0.5: round(value / step) * step
Rounded(x) == ((2 * x + 5) \div 10) * 5

\* after setup (the three async_setup_entry): one session each for the first
\* refresh of the coordinator, fetch_controls and fetch_setpoints; the select
\* entity holds the ids of session 2 (or no value id), the number entity the
\* id of session 3. `last` is the latest device session of the entity.
HostInit ==
    /\ SetIdle /\ FetchIdle /\ WalkIdle /\ NormIdle /\ opened = 0
    /\ task = [op \in HostOps |-> Idle]
    /\ session = 3
    /\ sel \in { [_value |-> "Automatik", values_id |-> v,
                  navigation_id |-> Id("Betriebsart", 2), last |-> 2]
                 : v \in {<<>>, Id("Heizkreis", 2)} }
    /\ num = [_value |-> 0, _control_id |-> Id("Warmwasser-Soll", 3), last |-> 3]
    /\ writes = {}

clientVars == <<setVars, fetchVars, opened>>

\* websockets.connect succeeds for the call `call` of `op`
Open(op, call, arg) ==
    /\ session < MaxSessions
    /\ session' = session + 1
    /\ task' = [task EXCEPT ![op] = [Idle EXCEPT !.call = call, !.sess = session + 1, !.arg = arg]]

\* the handler of `op` is over
Rest(op, out, err, before, after) ==
    task' = [task EXCEPT ![op] = [Idle EXCEPT !.out = out, !.err = err, !.shown = <<before, after>>]]

\* sensor.py lines 78-86: the poll begins
BeginPoll ==
    /\ task["poll"].call = "idle"
    /\ Open("poll", "fetch_data", <<>>)
    /\ UNCHANGED <<clientVars, walkVars, normVars, sel, num, writes>>

\* sensor.py lines 81-86: fetch_data returns or raises
EndPoll ==
    /\ task["poll"].call = "fetch_data"
    /\ \E err \in {"", "UpdateFailed"} : Rest("poll", "", err, <<>>, <<>>)
    /\ UNCHANGED <<clientVars, walkVars, normVars, session, sel, num, writes>>

\* select.py lines 99-100
BeginSelectUpdate ==
    /\ task["sel_update"].call = "idle"
    /\ Open("sel_update", "fetch_controls", <<>>)
    /\ sel' = [sel EXCEPT !.last = session + 1]
    /\ UNCHANGED <<clientVars, walkVars, normVars, num, writes>>

\* select.py lines 100-106: fetch_controls raises, returns no control of this
\* name, or returns the control with its value and the ids of this session
\* (the value id missing when the item has no @id)
EndSelectUpdate ==
    /\ task["sel_update"].call = "fetch_controls"
    /\ \/ /\ \E err \in {"", "error"} : Rest("sel_update", "", err, sel._value, sel._value)
          /\ UNCHANGED sel
       \/ \E v \in DeviceOptions, i \in {<<>>, Id("Heizkreis", task["sel_update"].sess)} :
            /\ sel' = [sel EXCEPT !._value = v, !.values_id = i,
                                  !.navigation_id = Id("Betriebsart", task["sel_update"].sess)]
            /\ Rest("sel_update", "", "", sel._value, v)
    /\ UNCHANGED <<clientVars, walkVars, normVars, session, num, writes>>

\* select.py line 75
OptionValue(option) ==
    LET i == CHOOSE i \in 0..Len(MetaOptions) :
                 IF \E j \in 1..Len(MetaOptions) : MetaOptions[j][2] = option
                 THEN i > 0 /\ MetaOptions[i][2] = option
                      /\ \A j \in 1..(i - 1) : MetaOptions[j][2] /= option
                 ELSE i = 0
    IN  IF i = 0 THEN <<>> ELSE <<MetaOptions[i][1]>>

\* select.py lines 74-80: the option is not one of the control's, or the
\* control has no value id
RejectOption ==
    /\ task["sel_write"].call = "idle"
    /\ \E option \in UserOptions :
        /\ OptionValue(option) = <<>> \/ sel.values_id = <<>>
        /\ Rest("sel_write", "", "HomeAssistantError", sel._value, sel._value)
    /\ UNCHANGED <<clientVars, walkVars, normVars, session, sel, num, writes>>

\* select.py lines 74-90: set_control is called with the ids the entity holds
BeginSelectOption ==
    /\ task["sel_write"].call = "idle"
    /\ \E option \in UserOptions :
        /\ OptionValue(option) /= <<>> /\ sel.values_id /= <<>>
        /\ Open("sel_write", "set_control", option)
    /\ writes' = writes \cup {[by |-> "select", control_id |-> sel.values_id,
                               page_id |-> sel.navigation_id, last |-> sel.last]}
    /\ sel' = [sel EXCEPT !.last = session + 1]
    /\ UNCHANGED <<clientVars, walkVars, normVars, num>>

\* select.py lines 91-97: ControlCommandError becomes HomeAssistantError, any
\* other error goes on to the caller as it is; on return the option is displayed
SelectOptionDone(out) ==
    IF out = "returned"
    THEN /\ sel' = [sel EXCEPT !._value = task["sel_write"].arg]
         /\ Rest("sel_write", out, "", sel._value, task["sel_write"].arg)
    ELSE /\ UNCHANGED sel
         /\ Rest("sel_write", out,
                 IF out = "ControlCommandError" THEN "HomeAssistantError" ELSE out,
                 sel._value, sel._value)

\* select.py lines 82-97: set_control returns or raises
EndSelectOption ==
    /\ task["sel_write"].call = "set_control"
    /\ \E out \in SetOutcomes : SelectOptionDone(out)
    /\ UNCHANGED <<clientVars, walkVars, normVars, session, num, writes>>

\* number.py lines 138-140
BeginNumberUpdate ==
    /\ task["num_update"].call = "idle"
    /\ Open("num_update", "fetch_setpoints", <<>>)
    /\ num' = [num EXCEPT !.last = session + 1]
    /\ UNCHANGED <<clientVars, walkVars, normVars, sel, writes>>

\* number.py lines 141-145: the value the device reports for the setpoint is
\* displayed if there is one and it parses
Refreshed(v) == IF v = 0 THEN num._value ELSE v

\* number.py lines 140-145: fetch_setpoints raises or returns
EndNumberUpdate ==
    /\ task["num_update"].call = "fetch_setpoints"
    /\ \/ /\ Rest("num_update", "", "error", num._value, num._value)
          /\ UNCHANGED num
       \/ \E v \in DeviceTemps :
            /\ num' = [num EXCEPT !._value = Refreshed(v)]
            /\ Rest("num_update", "", "", num._value, Refreshed(v))
    /\ UNCHANGED <<clientVars, walkVars, normVars, session, sel, writes>>

\* number.py lines 119-124: set_control is called with the id taken at setup
BeginSetValue ==
    /\ task["num_write"].call = "idle"
    /\ \E v \in UserTemps : Open("num_write", "set_control", Rounded(v))
    /\ writes' = writes \cup {[by |-> "number", control_id |-> num._control_id,
                               page_id |-> <<>>, last |-> num.last]}
    /\ num' = [num EXCEPT !.last = session + 1]
    /\ UNCHANGED <<clientVars, walkVars, normVars, sel>>

\* number.py lines 124-128: set_control raises, and so does the handler; or it
\* returns, the rounded value is displayed and fetch_setpoints is called, whose
\* connect succeeds or fails (lines 129-135: the failure is only logged)
EndSetValue ==
    /\ task["num_write"].call = "set_control"
    /\ \/ \E out \in SetErrors :
            /\ Rest("num_write", out, out, num._value, num._value)
            /\ UNCHANGED <<session, num>>
       \/ /\ session < MaxSessions
          /\ session' = session + 1
          /\ num' = [num EXCEPT !._value = task["num_write"].arg, !.last = session + 1]
          /\ task' = [task EXCEPT !["num_write"] =
                        [@ EXCEPT !.call = "fetch_setpoints", !.sess = session + 1,
                                  !.out = "returned",
                                  !.shown = <<num._value, task["num_write"].arg>>]]
       \/ /\ num' = [num EXCEPT !._value = task["num_write"].arg]
          /\ Rest("num_write", "returned", "", num._value, task["num_write"].arg)
          /\ UNCHANGED session
    /\ UNCHANGED <<clientVars, walkVars, normVars, sel, writes>>

\* number.py lines 127-136: the refresh after the write; its failure is only
\* logged
EndSetValueRefresh ==
    /\ task["num_write"].call = "fetch_setpoints"
    /\ \/ /\ Rest("num_write", "returned", "", num._value, num._value)
          /\ UNCHANGED num
       \/ \E v \in DeviceTemps :
            /\ num' = [num EXCEPT !._value = Refreshed(v)]
            /\ Rest("num_write", "returned", "", num._value, Refreshed(v))
    /\ UNCHANGED <<clientVars, walkVars, normVars, session, sel, writes>>

HostNext ==
    \/ BeginPoll \/ EndPoll
    \/ BeginSelectUpdate \/ EndSelectUpdate
    \/ RejectOption \/ BeginSelectOption \/ EndSelectOption
    \/ BeginNumberUpdate \/ EndNumberUpdate
    \/ BeginSetValue \/ EndSetValue \/ EndSetValueRefresh

\* the entities of one device address after setup: timer ticks and user
\* writes in any order, each operation a task that yields at its awaits
SpecHost == HostInit /\ [][HostNext]_vars

----------------------------------------------------------------------------
(* the host entities: the properties *)

\* C17 (as claimed): every id a write sends was handed out by the device in a
\* session no older than the entity's latest session before the write, that is,
\* by a discovery the entity ran since its previous session.
C17_FreshIds ==
    \A w \in writes :
        /\ w.control_id.session >= w.last
        /\ w.page_id /= <<>> => w.page_id.session >= w.last

\* the operations that have a session open
InSession == {op \in HostOps : task[op].call /= "idle"}

\* C18 (as claimed): at most one operation has a session open with the device.
C18_SingleFlight == Cardinality(InSession) <= 1

\* C20 (as claimed): when set_control fails, the handler of the select entity
\* raises HomeAssistantError and neither handler changes the displayed value;
\* a write handler changes the displayed value only once set_control has
\* returned.
C20_FailedWriteKeepsState ==
    \A op \in {"sel_write", "num_write"} :
        LET t == task[op]
        IN  /\ t.out \in SetErrors =>
                /\ t.shown[1] = t.shown[2]
                /\ op = "sel_write" => t.err = "HomeAssistantError"
            /\ (t.shown /= <<>> /\ t.shown[1] /= t.shown[2]) => t.out = "returned"

(***************************************************************************)
(* The fetchers against a device that may stay silent.                     *)
(***************************************************************************)

FetcherInit == FetchInit \/ CtlInit \/ SpInit

FetcherNext == FetchNext \/ CtlNext \/ SpNext

\* the awaits "await websocket.recv()" of lines 96, 105, 135, 159, 244, 256
\* and 263: none is wrapped in asyncio.wait_for
RecvPoints ==
    {"recv_greeting", "recv_content", "c_recv_greeting", "c_recv_page",
     "s_recv_greeting", "s_recv_settings", "s_recv_information"}

\* the steps a fetcher takes without the device's help: connecting (bounded
\* by open_timeout=5), sending, and a recv() on a connection that is no longer
\* open, which raises at once.  A recv() on an open connection returns only
\* when the device sends a frame.
OwnStep ==
    /\ ~(fpc \in RecvPoints /\ fconn = "open")
    /\ \/ FConnect \/ FConnectFail \/ FSendLogin \/ FRecvGreeting \/ FRecvContent
       \/ CConnect \/ CConnectFail \/ CSendLogin \/ CRecvGreeting \/ CRecvPage
       \/ SConnect \/ SConnectFail \/ SSendLogin \/ SRecvGreeting \/ SRecvSettings
       \/ SRecvInformation

\* one call of a fetcher; the event loop runs the coroutine whenever it can go
\* on, the device answers or not as it pleases
SpecFetchers == FetcherInit /\ [][FetcherNext]_vars /\ WF_vars(OwnStep)

\* C21: every call of fetch_data, fetch_controls and fetch_setpoints ends,
\* also when the device accepted the connection and then never sends the
\* greeting or a page: the receive is bounded by a timeout.
C21_ReceiveBounded == <>(fpc = "done")

----------------------------------------------------------------------------
(* set_control: undecodable frames *)

\* C22: a received frame that cannot be decoded is surfaced to the caller as
\* an error and the run does not go on.  Here for the greeting of
\* set_control (the frame read after LOGIN): once it failed to decode,
\* nothing more is sent and the call ends with an exception.
C22_DecodeFailureSurfaced ==
    (\E i \in DOMAIN responses :
        /\ responses[i].after = 1
        /\ MsgTruthy(responses[i])
        /\ ~Parse(responses[i].body).ok)
    => /\ Len(sent) = 1
       /\ pc = "done" => outcome.kind = "raised"

----------------------------------------------------------------------------
(* tools/novelan_ws_dump.py: collect_report, the walk over the device's tree *)

nonWalkVars == <<setVars, fetchVars, hostVars, normVars, opened>>

\* the faults a flaky device injects in one walk
MaxFaults == 2

\* device trees (the top-level items of the Navigation greeting, with their
\* subtrees).  WideTree: a branch two levels deep next to a leaf.
WideTree ==
    << Node(RStr(<<"A">>), <<"a">>, <<>>,
            << Node(RStr(<<"C">>), <<"c">>, <<>>,
                    << Node(RStr(<<"E">>), <<"e">>, <<"1">>, <<>>) >>),
               Node(RStr(<<"D">>), <<"d">>, <<"2">>, <<>>) >>),
       Node(RStr(<<"B">>), <<"b">>, <<>>, <<>>) >>

\* one top-level item (a bare dict after decoding) whose name is a list; a
\* child without name, a child without id, a child with a list name
OddTree ==
    << Node(RList(<<RStr(<<"A">>)>>), <<"a">>, <<>>,
            << Node(RNone, <<"u">>, <<"1">>, <<>>),
               Node(RStr(<<"X">>), <<>>, <<"2">>, <<>>),
               Node(RList(<<RStr(<<"L">>)>>), <<"l">>, <<"3">>, <<>>) >>) >>

\* a child whose name decodes to a dict (<name lang="de">T</name>)
DictTree ==
    << Node(RStr(<<"A">>), <<"a">>, <<>>,
            << Node(RDict(<<RStr(<<"T">>)>>), <<"t">>, <<"1">>, <<>>) >>) >>

Trees == {WideTree, OddTree, DictTree, <<>>}

WIds == {<<"a">>, <<"b">>, <<"c">>, <<"d">>, <<"e">>, <<"u">>, <<"l">>, <<"t">>}

\* the ids of a forest, in document order
RECURSIVE IdsOf(_)
IdsOf(nodes) ==
    IF nodes = <<>> THEN <<>>
    ELSE (IF Truthy(Head(nodes).id) THEN <<Head(nodes).id>> ELSE <<>>)
         \o IdsOf(Head(nodes).item.v) \o IdsOf(Tail(nodes))

\* the children of the node `id` (the device answers GET;id with them), none
\* for an id the device does not have
RECURSIVE KidsOf(_, _)
KidsOf(nodes, id) ==
    IF nodes = <<>> THEN <<>>
    ELSE IF Head(nodes).id = id THEN Head(nodes).item.v
    ELSE LET below == KidsOf(Head(nodes).item.v, id)
         IN  IF below /= <<>> THEN below ELSE KidsOf(Tail(nodes), id)

\* the decoded payload of GET;id: a Content document
Payload(id) == [ok |-> TRUE, root |-> "Content", item |-> XmlItems(KidsOf(dev.tree, id))]

\* lines 98-110, _enumerate_children: (name, id) of every dict below `node`
\* that has a name and an id, in document order
RECURSIVE _enumerate_children(_)
_enumerate_children(nodes) ==
    IF nodes = <<>> THEN <<>>
    ELSE LET n == Head(nodes)
             name == WalkName(n)
         IN  (IF RawTruthy(name) /\ Truthy(n.id) THEN <<[name |-> name, id |-> n.id]>> ELSE <<>>)
             \o _enumerate_children(n.item.v) \o _enumerate_children(Tail(nodes))

\* lines 113-131, _extract_entries: the number of dicts with a name and a value
RECURSIVE _extract_entries(_)
_extract_entries(nodes) ==
    IF nodes = <<>> THEN 0
    ELSE LET n == Head(nodes)
         IN  (IF RawTruthy(n.name) /\ Truthy(n.value) THEN 1 ELSE 0)
             + _extract_entries(n.item.v) + _extract_entries(Tail(nodes))

\* lines 35-38
QueueNode(path, node_id) == [path |-> path, node_id |-> node_id]

\* lines 178-181: str(name) of a top-level item
TopName(item) ==
    LET name == IF RawTruthy(item.name) THEN item.name ELSE RStr(<<"<unnamed>">>)
        first == IF name.t = "list" THEN Head(name.l) ELSE name
    IN  IF first.t = "str" THEN first ELSE RStr(<<"repr">> \o _normalize_label(first))

\* lines 173-183: the queue built from the greeting
RECURSIVE TopQueue(_)
TopQueue(nav_items) ==
    IF nav_items = <<>> THEN <<>>
    ELSE LET item == Head(nav_items)
         IN  (IF Truthy(item.id) THEN <<QueueNode(<<TopName(item)>>, item.id)>> ELSE <<>>)
             \o TopQueue(Tail(nav_items))

\* lines 253-255: the children not yet seen, appended to the queue
RECURSIVE Enqueue(_, _, _, _)
Enqueue(q, path, kids, s) ==
    IF kids = <<>> THEN q
    ELSE Enqueue(IF Head(kids).id \notin s
                 THEN Append(q, QueueNode(Append(path, Head(kids).name), Head(kids).id))
                 ELSE q,
                 path, Tail(kids), s)

\* " / ".join(node.path) raises TypeError unless every element is a str
Joinable(path) == \A i \in DOMAIN path : path[i].t = "str"

WEnded(kind, err) == [kind |-> kind, result |-> NoMsg, error |-> err, via |-> ""]

Event(ev, id) == [ev |-> ev, id |-> id, sess |-> wsess]

WalkInit ==
    /\ SetIdle /\ FetchIdle /\ HostIdle /\ NormIdle /\ opened = 0
    /\ wargs \in [max_nodes : {2, 6}, retries : {0, 1, 2}, max_failures : {0, 1, 2},
                  overview_only : BOOLEAN]
    /\ dev \in { [tree |-> t, dead |-> d, flaky |-> f] :
                    t \in Trees, d \in {{}} \cup {{i} : i \in WIds}, f \in BOOLEAN }
    /\ dev.dead \subseteq {IdsOf(dev.tree)[i] : i \in DOMAIN IdsOf(dev.tree)}
    /\ faults = 0
    /\ wpc = "connect" /\ wat = "init" /\ wconn = "none" /\ nconn = "none" /\ wsess = 0
    /\ queue = <<>> /\ seen = {} /\ retries = [i \in WIds |-> 0] /\ report = <<>>
    /\ skipped = <<>> /\ skipped_count = 0 /\ cur = <<>>
    /\ woutcome = Running /\ trace = <<>>

\* the flaky device may inject one more fault
MayFail == dev.flaky /\ faults < MaxFaults

\* lines 260-264: the finally clause closes `websocket`, then the function
\* returns the report or the exception goes on to the caller
Finally(kind, err) ==
    /\ wconn' = IF wconn = "none" THEN "none" ELSE "closed"
    /\ wpc' = "done"
    /\ woutcome' = WEnded(kind, err)

\* _open_connection raises: line 169 is outside the try statement, lines 217
\* and 230 are inside it
OpenRaises(err) ==
    IF wat = "init"
    THEN /\ wpc' = "done"
         /\ woutcome' = WEnded("raised", err)
         /\ UNCHANGED wconn
    ELSE Finally("raised", err)

\* lines 155-161: websockets.connect succeeds
WConnect ==
    /\ wpc = "connect"
    /\ nconn' = "open"
    /\ wpc' = "login"
    /\ UNCHANGED <<nonWalkVars, wargs, dev, faults, wat, wconn, wsess, queue, seen, retries,
                   report, skipped, skipped_count, cur, woutcome, trace>>

\* lines 155-161: websockets.connect raises
WConnectFail ==
    /\ wpc = "connect"
    /\ MayFail
    /\ faults' = faults + 1
    /\ OpenRaises("OSError")
    /\ UNCHANGED <<nonWalkVars, wargs, dev, wat, nconn, wsess, queue, seen, retries,
                   report, skipped, skipped_count, cur, trace>>

\* lines 173-174: "nav_items if isinstance(nav_items, list) else [nav_items]",
\* then filter(None, items)
NavItems(coll) ==
    IF coll.k = "list" THEN coll.v
    ELSE IF coll.k = "dict" THEN <<coll.v[1]>>
    ELSE <<>>

\* lines 162-165: LOGIN is sent, the greeting read and decoded, and
\* _open_connection returns to line 169 (the queue is built, lines 173-187), to
\* line 217 (GET is sent for the node in hand, line 222) or to line 230
WLogin ==
    /\ wpc = "login"
    /\ wconn' = "open"
    /\ nconn' = "none"
    /\ wsess' = wsess + 1
    /\ CASE wat = "init" ->
                /\ queue' = TopQueue(NavItems(XmlItems(dev.tree)))
                /\ wpc' = "loop"
                /\ UNCHANGED trace
         [] wat = "gate" ->
                /\ wpc' = "get"
                /\ trace' = Append(trace, [ev |-> "get", id |-> cur.node_id, sess |-> wsess + 1])
                /\ UNCHANGED queue
         [] OTHER ->
                /\ wpc' = "loop"
                /\ UNCHANGED <<queue, trace>>
    /\ UNCHANGED <<nonWalkVars, wargs, dev, faults, wat, seen, retries, report, skipped,
                   skipped_count, cur, woutcome>>

\* lines 162-164: the connection closes during the login, or the greeting does
\* not decode
WLoginFail ==
    /\ wpc = "login"
    /\ MayFail
    /\ faults' = faults + 1
    /\ \E e \in {"ConnectionClosed", "ExpatError"} :
          /\ nconn' = IF e = "ConnectionClosed" THEN "peer_closed" ELSE "open"
          /\ OpenRaises(e)
    /\ UNCHANGED <<nonWalkVars, wargs, dev, wat, wsess, queue, seen, retries, report, skipped,
                   skipped_count, cur, trace>>

\* the device (or the network) closes the walk's connection
WDeviceClose ==
    /\ wpc \in {"loop", "get"}
    /\ wconn = "open"
    /\ MayFail
    /\ faults' = faults + 1
    /\ wconn' = "peer_closed"
    /\ UNCHANGED <<nonWalkVars, wargs, dev, wpc, wat, nconn, wsess, queue, seen, retries, report,
                   skipped, skipped_count, cur, woutcome, trace>>

\* mutant: the failed node goes to the end of the queue
Requeue_AtBack(q, node) == Append(q, node)

\* line 227
Requeue(q, node) == <<node>> \o q

\* line 226
Bump(r, id) == [r EXCEPT ![id] = @ + 1]

\* lines 224-231: the GET for `node` failed; `q` is the queue without it
Fail(node, q) ==
    /\ retries' = Bump(retries, node.node_id)
    /\ queue' = Requeue(q, node)
    /\ wconn' = "closed"
    /\ wat' = "fail"
    /\ wpc' = "connect"
    /\ cur' = node
    /\ UNCHANGED <<wsess, nconn, seen, report, skipped, skipped_count, woutcome>>

\* mutant: one attempt more than configured
Exhausted_Late(node) == retries[node.node_id] > wargs.retries

\* mutant: a node that was skipped once gets a fresh attempt
Exhausted_Once(node) ==
    /\ retries[node.node_id] >= wargs.retries
    /\ \A i \in DOMAIN skipped : skipped[i].id /= node.node_id

\* line 195
Exhausted(node) == retries[node.node_id] >= wargs.retries

\* mutant: the budget counts one failure too many
TooManyFailures_Early(n) == wargs.max_failures /= 0 /\ n + 1 >= wargs.max_failures

\* line 203
TooManyFailures(n) == wargs.max_failures /= 0 /\ n >= wargs.max_failures

\* lines 190-222: the loop condition and one node taken from the queue, up to
\* the next await
WIterate ==
    /\ wpc = "loop"
    /\ IF queue = <<>> \/ Len(report) >= wargs.max_nodes
       THEN /\ Finally("returned", "")
            /\ UNCHANGED <<wat, nconn, wsess, queue, seen, retries, report, skipped,
                           skipped_count, cur, trace>>
       ELSE LET node == Head(queue)
                q == Tail(queue)
            IN  IF node.node_id \in seen
                THEN /\ queue' = q
                     /\ trace' = Append(trace, Event("dup", node.node_id))
                     /\ UNCHANGED <<wpc, wat, wconn, nconn, wsess, seen, retries, report, skipped,
                                    skipped_count, cur, woutcome>>
                ELSE IF Exhausted(node)
                THEN /\ queue' = q
                     /\ IF ~Joinable(node.path)
                        THEN /\ Finally("raised", "TypeError")
                             /\ UNCHANGED <<skipped, skipped_count, trace>>
                        ELSE /\ skipped' = Append(skipped, [path |-> node.path, id |-> node.node_id,
                                                            attempts |-> retries[node.node_id]])
                             /\ skipped_count' = skipped_count + 1
                             /\ trace' = Append(trace, Event("skip", node.node_id))
                             /\ IF TooManyFailures(skipped_count + 1) \/ wargs.overview_only
                                THEN Finally("returned", "")
                                ELSE UNCHANGED <<wpc, wconn, woutcome>>
                     /\ UNCHANGED <<wat, nconn, wsess, seen, retries, report, cur>>
                ELSE \/ \* line 213: websocket.closed
                        /\ wconn \in {"peer_closed", "closed"}
                        /\ wconn' = "closed"
                        /\ queue' = q
                        /\ cur' = node
                        /\ wat' = "gate"
                        /\ wpc' = "connect"
                        /\ UNCHANGED <<nconn, wsess, seen, retries, report, skipped,
                                       skipped_count, woutcome, trace>>
                     \/ \* line 222: GET is sent
                        /\ wconn = "open"
                        /\ queue' = q
                        /\ cur' = node
                        /\ wpc' = "get"
                        /\ trace' = Append(trace, Event("get", node.node_id))
                        /\ UNCHANGED <<wat, wconn, nconn, wsess, seen, retries, report, skipped,
                                       skipped_count, woutcome>>
                     \/ \* line 222: the closure is not yet seen by line 213, send raises
                        /\ wconn = "peer_closed"
                        /\ trace' = Append(Append(trace, Event("get", node.node_id)),
                                           Event("fail", node.node_id))
                        /\ Fail(node, q)
    /\ UNCHANGED <<nonWalkVars, wargs, dev, faults>>

\* lines 233-259: the payload is decoded and reported, its children queued
Report ==
    LET kids == _enumerate_children(Payload(cur.node_id).item.v)
    IN  IF ~Joinable(cur.path)
        THEN /\ Finally("raised", "TypeError")
             /\ UNCHANGED <<queue, seen, report, trace>>
        ELSE /\ report' = Append(report, [path |-> cur.path, id |-> cur.node_id,
                                          entry_count |-> _extract_entries(Payload(cur.node_id).item.v)])
             /\ seen' = seen \cup {cur.node_id}
             /\ queue' = Enqueue(queue, cur.path, kids, seen \cup {cur.node_id})
             /\ trace' = Append(trace, Event("ok", cur.node_id))
             /\ IF wargs.overview_only
                THEN Finally("returned", "")
                ELSE /\ wpc' = "loop"
                     /\ UNCHANGED <<wconn, woutcome>>

\* line 223: the wait for the payload ends, with the payload, with
\* asyncio.TimeoutError after args.timeout seconds, or with ConnectionClosed
WRecv ==
    /\ wpc = "get"
    /\ \/ /\ wconn = "open"
          /\ cur.node_id \notin dev.dead
          /\ Report
          /\ UNCHANGED <<faults, wat, nconn, wsess, retries, skipped, skipped_count, cur>>
       \/ /\ wconn = "open"
          /\ cur.node_id \in dev.dead \/ MayFail
          /\ faults' = IF cur.node_id \in dev.dead THEN faults ELSE faults + 1
          /\ trace' = Append(trace, Event("fail", cur.node_id))
          /\ Fail(cur, queue)
       \/ /\ wconn = "peer_closed"
          /\ trace' = Append(trace, Event("fail", cur.node_id))
          /\ Fail(cur, queue)
          /\ UNCHANGED faults
       \/ \* line 233: the payload does not decode
          /\ wconn = "open"
          /\ cur.node_id \notin dev.dead
          /\ MayFail
          /\ faults' = faults + 1
          /\ Finally("raised", "ExpatError")
          /\ UNCHANGED <<wat, nconn, wsess, queue, seen, retries, report, skipped,
                         skipped_count, cur, trace>>
    /\ UNCHANGED <<nonWalkVars, wargs, dev>>

WalkNext ==
    \/ WConnect \/ WConnectFail \/ WLogin \/ WLoginFail
    \/ WDeviceClose \/ WIterate \/ WRecv

\* one run of collect_report
SpecWalk == WalkInit /\ [][WalkNext]_vars

----------------------------------------------------------------------------
(* collect_report: properties *)

SeqSet(s) == {s[i] : i \in DOMAIN s}

ReportedIds == {report[i].id : i \in DOMAIN report}

SkippedIds == {skipped[i].id : i \in DOMAIN skipped}

\* the ids the walk can come to know when the nodes of `dead` never answer:
\* the top-level items of the greeting, and what the payloads of the nodes that
\* answer enumerate (a payload holds the whole subtree of its node)
RECURSIVE Discovered(_, _)
Discovered(known, dead) ==
    LET more == known \cup
                UNION { {k.id : k \in SeqSet(_enumerate_children(KidsOf(dev.tree, i)))}
                        : i \in known \ dead }
    IN  IF more = known THEN known ELSE Discovered(more, dead)

Reachable ==
    Discovered({q.node_id : q \in SeqSet(TopQueue(NavItems(XmlItems(dev.tree))))}, dev.dead)

\* C23: against a device where GET for one node id (one the walk can reach)
\* always times out and every other GET succeeds, the finished walk has marked
\* exactly that node skipped, once, after the configured number of retries,
\* and has reported every other reachable node unless the max-nodes budget was
\* used up.  Stated for a full walk with at least one attempt per node and no
\* max-failures budget.
C23_OneNodeSkipped ==
    \A n \in WIds :
        (/\ wpc = "done" /\ dev.dead = {n} /\ n \in Reachable /\ ~dev.flaky
         /\ wargs.retries >= 1 /\ wargs.max_failures = 0 /\ ~wargs.overview_only) =>
            /\ woutcome.kind = "returned"
            /\ SkippedIds \subseteq {n}
            /\ Len(skipped) <= 1
            /\ \A i \in DOMAIN skipped : skipped[i].attempts = wargs.retries
            /\ Len(report) < wargs.max_nodes =>
                  /\ Len(skipped) = 1
                  /\ ReportedIds = Reachable \ {n}

\* the steps of the walk that end by themselves: the connect is bounded by
\* open_timeout=5 (line 158), the wait for a payload by args.timeout (line
\* 223), the rest is the walk's own code.  The read of the greeting (line 163)
\* has no timeout; that the device answers LOGIN or closes is the hypothesis
\* under which the walk is run here, where faults happen on GET.
WalkStep == WConnect \/ WConnectFail \/ WLogin \/ WLoginFail \/ WIterate \/ WRecv

SpecWalkLive == WalkInit /\ [][WalkNext]_vars /\ WF_vars(WalkStep)

C25_AbortOnMaxFailures ==
    (wpc = "done" /\ wargs.max_failures /= 0 /\ skipped_count >= wargs.max_failures) =>
        woutcome.kind = "raised"

\* the step in which a GET fails (timeout, or closed connection)
GetFails == Len(trace') > Len(trace) /\ Last(trace').ev = "fail"

\* C26: when the GET for node n times out or hits a closed connection, n's
\* retry counter grows by exactly one and no other counter changes, the report
\* and the seen set are unchanged, the old session is closed and n is at the
\* front of the queue; n is the next node the walk takes, to retry or to skip
\* it, and every later GET runs in a session logged in after the failure.
C26_RetryAtFront ==
    /\ [][GetFails =>
            LET n == Last(trace').id
            IN  /\ retries' = [retries EXCEPT ![n] = retries[n] + 1]
                /\ report' = report /\ seen' = seen
                /\ queue' /= <<>> /\ Head(queue').node_id = n
                /\ Tail(queue') = queue \/ (queue /= <<>> /\ Tail(queue') = Tail(queue))
                /\ wconn' = "closed"]_vars
    /\ [](\A i \in DOMAIN trace :
            trace[i].ev = "fail" =>
                /\ i < Len(trace) =>
                      /\ trace[i + 1].id = trace[i].id
                      /\ trace[i + 1].ev \in {"get", "skip"}
                /\ \A j \in DOMAIN trace :
                      (j > i /\ trace[j].ev = "get") => trace[j].sess > trace[i].sess)

\* a GET failed while other nodes were queued, and the node was asked again in
\* a new session
C26_Witness ==
    \E i \in DOMAIN trace :
        /\ trace[i].ev = "fail"
        /\ i < Len(trace) /\ trace[i + 1].ev = "get" /\ trace[i + 1].sess > trace[i].sess
        /\ Len(queue) > 0

----------------------------------------------------------------------------
(* set_control: the page and the target *)

\* what the read after GET returned, None when no GET was sent or the read
\* returned nothing
PageResponse == IF Len(sent) >= 2 /\ sent[2].op = "GET" THEN ResponseTo(2) ELSE NoMsg

\* the items of the page response, in document order
PageItems ==
    LET doc == Parse(PageResponse.body)
    IN  IF doc.ok /\ doc.root = "Content" THEN WrapDict(doc.item).v ELSE <<>>

\* the positions of the items that carry the caller's label and an id
Labelled ==
    {i \in DOMAIN PageItems :
        Strip(_normalize_label(PageItems[i].name)) = label /\ Truthy(PageItems[i].id)}

NoLookupSent == \A i \in DOMAIN sent : sent[i].op /= "REFRESH"

\* C27: once the page step is over (and before any label lookup), the target
\* is the id of the first item of the page response, in document order, whose
\* normalized label is the caller's label and that has an id, whatever control
\* id the caller gave; with no such item, no label or no page response the
\* target is the caller's control id.
C27_TargetFromPage ==
    (pc = "send_lookup" \/ (pc \in {"send_set", "recv_set"} /\ NoLookupSent)) =>
        active_id = (IF Truthy(label) /\ Labelled /= {}
                     THEN PageItems[CHOOSE i \in Labelled : \A j \in Labelled : i <= j].id
                     ELSE control_id)

\* the page named two items with the caller's label; the first one replaced
\* the control id the caller had given
C27_Witness ==
    /\ pc = "send_set" /\ NoLookupSent
    /\ Truthy(control_id) /\ Cardinality(Labelled) > 1
    /\ active_id /= control_id

\* the positions of the GETs sent before SET
GetsBeforeSet == {i \in 1..Len(BeforeSet) : BeforeSet[i].op = "GET"}

\* C28: whenever SET is sent, the page that scopes the target id was opened
\* in the same session: a GET was sent before SET, and the last one is for the
\* page id the caller discovered together with the control id (its page_id
\* argument).
C28_PageOpenedBeforeSet ==
    SetSent =>
        /\ GetsBeforeSet /= {}
        /\ BeforeSet[CHOOSE i \in GetsBeforeSet : \A j \in GetsBeforeSet : j <= i].id = page_id

\* the top-level items of the greeting that was read, none when no greeting
\* was read or it is not a Navigation document
GreetingItems ==
    LET doc == Parse(ResponseTo(1).body)
    IN  IF doc.ok /\ doc.root = "Navigation" THEN WrapDict(doc.item).v ELSE <<>>

\* the children of the first Settings branch of the greeting
SettingsChildren ==
    LET at == {i \in DOMAIN GreetingItems : IsSettings(GreetingItems[i])}
    IN  IF at = {} THEN <<>>
        ELSE WrapDict(GreetingItems[CHOOSE i \in at : \A j \in at : i <= j].item).v

\* the page to open: Settings -> Betriebsart of the greeting, else the
\* caller's page_id
PageToOpen ==
    LET at == {i \in DOMAIN SettingsChildren : IsOperate(SettingsChildren[i])}
    IN  IF at = {} THEN page_id
        ELSE SettingsChildren[CHOOSE i \in at : \A j \in at : i <= j].id

\* C29: after the greeting read, the page is the id of Settings -> Betriebsart
\* when the greeting shows one and the caller's page_id otherwise; GET is sent
\* once, for that page, right after LOGIN, when a page is known, and not at all
\* when none is; a greeting that is missing or does not decode does not end the
\* run: it goes on with the caller's page_id and control_id.
C29_PageChoice ==
    /\ reads >= 1 => nav_page_id = PageToOpen
    /\ \A i \in DOMAIN sent :
          sent[i].op = "GET" => (i = 2 /\ reads >= 1 /\ Truthy(PageToOpen) /\ sent[i] = GET(PageToOpen))
    /\ (Len(sent) >= 2 /\ reads >= 1) => (Truthy(PageToOpen) <=> sent[2].op = "GET")
    /\ (reads >= 1 /\ Len(sent) = 1 /\ pc = "done") =>
          \/ outcome.via = "closed"
          \/ outcome.via = "missing" /\ ~Truthy(control_id)
    /\ (pc = "send_get" /\ GreetingItems = <<>>) => (nav_page_id = page_id /\ active_id = control_id)

\* the greeting did not decode, and the run went on to open the caller's page
\* and to send SET
C29_Witness ==
    /\ SetSent
    /\ ResponseTo(1).body = "bad"
    /\ Truthy(page_id) /\ sent[2] = GET(page_id)

\* C30: every SET command carries the caller's value unchanged and an id that
\* begins with the marker "set_": the resolved id itself when it already begins
\* with the marker, the marker followed by the resolved id otherwise.
C30_SetForm ==
    \A i \in SetPositions :
        /\ sent[i].val = value
        /\ sent[i].id /= <<>> /\ Head(sent[i].id) = "set_"
        /\ active_id /= <<>>
        /\ Head(active_id) = "set_" => sent[i].id = active_id
        /\ Head(active_id) /= "set_" => sent[i].id = <<"set_">> \o active_id

\* SET was sent for an id that already began with the marker
C30_Witness ==
    /\ SetSent
    /\ active_id /= <<>> /\ Head(active_id) = "set_"
    /\ sent[SetPos].id = active_id

----------------------------------------------------------------------------
(* set_control: the reads *)

ReadPoints == {"recv_greeting", "recv_outer", "recv_lookup", "recv_set",
               "recv_refresh1", "recv_save", "recv_refresh2", "recv_final"}

\* the statement that follows each read when the read returned nothing: the
\* next send, the missing-id error of line 380, or the return of line 408
StepAfter(at) ==
    CASE at = "recv_greeting" -> {"send_get", "send_lookup", "send_set", "missing"}
      [] at = "recv_outer"    -> {"send_lookup", "send_set", "missing"}
      [] at = "recv_lookup"   -> {"send_set", "missing"}
      [] at = "recv_set"      -> {"send_refresh1"}
      [] at = "recv_refresh1" -> {"send_save"}
      [] at = "recv_save"     -> {"send_refresh2"}
      [] at = "recv_refresh2" -> {"send_refresh3"}
      [] at = "recv_final"    -> {"return"}
      [] OTHER                -> {}

\* where the call is after a step: the await it is at, or how it ended
Position(p, o) == IF p = "done" THEN o.via ELSE p

\* C31: every read of set_control is best-effort. A read takes place only at
\* one of the eight reads of the call and sends nothing. A read on a closed
\* connection returns nothing; a read that returns nothing (timeout or closed
\* connection) leaves the buffered responses as they are, is not propagated
\* (neither error handler ends the call) and the call goes on to the statement
\* that follows the read; any other read appends exactly its frame.
C31_ReadsBestEffort ==
    [][reads' /= reads =>
        /\ pc \in ReadPoints /\ reads' = reads + 1 /\ sent' = sent
        /\ conn /= "open" => responses' = responses
        /\ responses' = responses =>
            /\ Position(pc', outcome') \in StepAfter(pc)
            /\ outcome'.via \notin {"closed", "failed"}
        /\ responses' /= responses =>
            /\ conn = "open"
            /\ \E b \in PreSetBodies : responses' = Append(responses, Msg(b, Len(sent)))]_vars

\* a call that went through all its reads: some returned nothing, at least one
\* returned a frame, and the buffer holds exactly the frames
C31_Witness ==
    /\ pc = "done" /\ outcome.via = "return"
    /\ reads > Len(responses) /\ responses /= <<>>
    /\ \A i \in DOMAIN responses : responses[i] /= NoMsg

----------------------------------------------------------------------------
(* the shape of a decoded collection with one element *)

\* the same decoded collection from a decoder that delivers every collection,
\* also one with a single element, as a list (at every depth: the children
\* under 'item' and the options under 'option')
RECURSIVE ListedColl(_)
RECURSIVE ListedNode(_)
ListedColl(c) ==
    IF c.k = "none" THEN c ELSE CList([i \in DOMAIN c.v |-> ListedNode(c.v[i])])
ListedNode(n) ==
    [f \in DOMAIN n |-> IF f \in {"item", "option"} THEN ListedColl(n[f]) ELSE n[f]]

\* some collection of the document holds exactly one element
RECURSIVE HasSingle(_)
HasSingle(c) ==
    \/ c.k = "dict"
    \/ \E i \in DOMAIN c.v : \E f \in DOMAIN c.v[i] \cap {"item", "option"} : HasSingle(c.v[i][f])

\* what each fetcher sends and returns when the frames of the state arrive in
\* that shape
ListedNav == WrapDict(ListedColl(XmlItems(navFrame))).v
DataListed ==
    LET i == FirstIndex(ListedNav, IsInformation, 1)
        content_items == WrapDict(ListedColl(ContentItems(contentFrame))).v
    IN  IF ListedNav = <<>> THEN Run(<<LOGIN>>, "raised", <<>>)
        ELSE IF i = 0 THEN Run(<<LOGIN>>, "returned", <<>>)
        ELSE Run(<<LOGIN, GET(ListedNav[i].id)>>, "returned",
                 Put(PutGroups(<<>>, content_items, 1), <<"Time">>, Now))
ControlsListed ==
    LET si == FirstIndex(ListedNav, CtlIsSettings, 1)
        kids == IF si = 0 THEN <<>> ELSE WrapDict(ListedNav[si].item).v
        oi == FirstIndex(kids, CtlIsOperate, 1)
        items == WrapDict(ListedColl(XmlItems(contentFrame))).v
        named == SelectSeq(items, HasName)
    IN  IF ListedNav = <<>> THEN Run(<<LOGIN>>, "raised", <<>>)
        ELSE IF oi = 0 \/ ~Truthy(kids[oi].id) THEN Run(<<LOGIN>>, "returned", <<>>)
        ELSE Run(<<LOGIN, GET(kids[oi].id)>>, "returned",
                 [i \in 1..Len(named) |-> ControlOf(named[i], kids[oi].id)])
SetpointsListed ==
    LET si == FirstIndex(ListedNav, SpIsSettings, 1)
        ii == FirstIndex(ListedNav, SpIsInformation, 1)
        settings == WrapDict(ListedColl(XmlItems(contentFrame.settings))).v
        information == WrapDict(ListedColl(XmlItems(contentFrame.information))).v
    IN  IF ListedNav = <<>> THEN Run(<<LOGIN>>, "raised", <<>>)
        ELSE Run(<<LOGIN>> \o (IF si = 0 THEN <<>> ELSE <<GET(ListedNav[si].id)>>)
                           \o (IF ii = 0 THEN <<>> ELSE <<GET(ListedNav[ii].id)>>),
                 "returned",
                 Update(IF si = 0 THEN <<>> ELSE collect_controls(settings),
                        IF ii = 0 THEN <<>> ELSE collect_controls(information)))
FetchListed ==
    CASE fn = "fetch_data"      -> DataListed
      [] fn = "fetch_controls"  -> ControlsListed
      [] fn = "fetch_setpoints" -> SetpointsListed

\* the payload of GET;id in that shape
ListedPayload(id) == ListedColl(Payload(id).item).v

\* C33 (as claimed): a completed call of fetch_data, fetch_controls or
\* fetch_setpoints has sent the commands and returned the result it sends and
\* returns when every collection of the frames with exactly one element arrives
\* as a one-element list instead of a bare element; and the tree walk builds
\* the same queue from the greeting and takes the same children and the same
\* number of entries from the payload of every node it reports.
C33_ShapeIndependent ==
    /\ FetchCompleted => Run(fsent, foutcome.kind, res) = FetchListed
    /\ (wpc \notin {"idle", "connect", "login"}) =>
        /\ TopQueue(NavItems(XmlItems(dev.tree)))
             = TopQueue(NavItems(ListedColl(XmlItems(dev.tree))))
        /\ \A i \in DOMAIN report :
            /\ _enumerate_children(Payload(report[i].id).item.v)
                 = _enumerate_children(ListedPayload(report[i].id))
            /\ report[i].entry_count = _extract_entries(ListedPayload(report[i].id))

----------------------------------------------------------------------------
(* fetch_controls: the labels of the options *)

\* C34 (as claimed): every option of every descriptor fetch_controls returns
\* has a non-empty label.
C34_OptionLabelsNonEmpty ==
    CtlReturned =>
        \A i \in DOMAIN res : \A j \in DOMAIN res[i].options :
            Truthy(res[i].options[j].label)

----------------------------------------------------------------------------
(* _normalize_label on its own *)

\* bounds of the raw label: how deep lists and dicts nest, how many elements
\* one of them holds
MaxDepth == 2
MaxItems == 2

\* what xmltodict delivers at the bottom of a name: no text, a text (blank,
\* with a leading blank), an empty list, a dict without a text-bearing key
RawLeaves ==
    { RNone, RStr(<<>>), RStr(<<" ">>), RStr(<<"L">>), RStr(<<" ", "L">>),
      RList(<<>>), RDict(<<>>) }
\* what may stand in front of the first element of a list or dict
RawFront == { RNone, RStr(<<>>), RStr(<<"M">>) }

RECURSIVE RawDepth(_)
RawDepth(raw) ==
    IF raw.t \in {"str", "none"} \/ raw.l = <<>> THEN 0
    ELSE 1 + RawDepth(Last(raw.l))

NormInit ==
    /\ SetIdle /\ FetchIdle /\ HostIdle /\ WalkIdle /\ opened = 0
    /\ nraw \in RawLeaves
    /\ ntext = <<>>
    /\ npc = "build"

\* the raw label is wrapped in a list, or in a dict under a text-bearing key
NWrap ==
    /\ npc = "build"
    /\ RawDepth(nraw) < MaxDepth
    /\ nraw' \in {RList(<<nraw>>), RDict(<<nraw>>)}
    /\ UNCHANGED <<setVars, fetchVars, hostVars, opened, walkVars, ntext, npc>>

\* one more element in front of the list or dict
NAdd ==
    /\ npc = "build"
    /\ nraw.t \in {"list", "dict"}
    /\ 0 < Len(nraw.l) /\ Len(nraw.l) < MaxItems
    /\ \E x \in RawFront : nraw' = [nraw EXCEPT !.l = <<x>> \o @]
    /\ UNCHANGED <<setVars, fetchVars, hostVars, opened, walkVars, ntext, npc>>

\* lines 30-47 applied to the raw label, to its own result, and to the raw
\* label wrapped in a one-element list
NApply ==
    /\ npc = "build"
    /\ ntext' = [once    |-> _normalize_label(nraw),
                 twice   |-> _normalize_label(RStr(_normalize_label(nraw))),
                 wrapped |-> _normalize_label(RList(<<nraw>>))]
    /\ npc' = "done"
    /\ UNCHANGED <<setVars, fetchVars, hostVars, opened, walkVars, nraw>>

NormNext == NWrap \/ NAdd \/ NApply

\* _normalize_label called on raw labels of bounded size
SpecNormalize == NormInit /\ [][NormNext]_vars

\* C35: normalizing a normalized label gives the same string, and a raw label
\* wrapped in a one-element list normalizes to the same string as the raw
\* label itself; the same holds for the stripped label the callers use.
C35_NormalizeIdempotent ==
    npc = "done" =>
        /\ ntext.twice = ntext.once
        /\ ntext.wrapped = ntext.once
        /\ Strip(_normalize_label(RStr(Strip(ntext.once)))) = Strip(ntext.once)

\* a nested raw label whose first elements are empty and whose text has a
\* leading blank was normalized
C35_Witness ==
    /\ npc = "done"
    /\ RawDepth(nraw) = 2 /\ Len(nraw.l) = 2
    /\ ~Truthy(_normalize_label(Head(nraw.l)))
    /\ ntext.once = <<" ", "L">>

----------------------------------------------------------------------------
(* collect_report: what the report and the skip list hold *)

\* C36: in every state of the walk no node id appears twice in the report, the
\* report holds at most max-nodes entries, and no node id is both in the report
\* and in the skip list.
C36_ReportSound ==
    /\ \A i, j \in DOMAIN report : report[i].id = report[j].id => i = j
    /\ Len(report) <= wargs.max_nodes
    /\ ReportedIds \cap SkippedIds = {}

\* a finished walk that reported three nodes or more, skipped one, and met a
\* node in the queue that it had already reported
C36_Witness ==
    /\ wpc = "done" /\ woutcome.kind = "returned"
    /\ Len(report) >= 3 /\ skipped /= <<>>
    /\ \E i \in DOMAIN trace : trace[i].ev = "dup"

----------------------------------------------------------------------------
(* collect_report: the GET requests *)

\* the GET requests for `id` so far
GetsOf(id) == {i \in DOMAIN trace : trace[i].ev = "get" /\ trace[i].id = id}

\* C37: for each node id the walk sends at most `retries` GET requests; with
\* retries = 0 it requests no node, reports none, and skips every node it takes
\* from the queue; and it sends no GET for an id it has already reported or
\* already skipped.
C37_GetBudget ==
    /\ \A id \in WIds : Cardinality(GetsOf(id)) <= wargs.retries
    /\ wargs.retries = 0 =>
        /\ report = <<>>
        /\ \A i \in DOMAIN trace : trace[i].ev = "skip"
        /\ Len(skipped) = Len(trace)
    /\ \A i \in DOMAIN trace : trace[i].ev = "get" =>
        \A j \in 1..(i - 1) : trace[j].id = trace[i].id => trace[j].ev \notin {"ok", "skip"}

\* a finished walk with two attempts per node: one node answered at the second
\* attempt, another was skipped after two, and was met again afterwards
C37_Witness ==
    /\ wpc = "done" /\ wargs.retries = 2
    /\ \E id \in ReportedIds : Cardinality(GetsOf(id)) = 2
    /\ \E id \in SkippedIds :
        /\ Cardinality(GetsOf(id)) = 2
        /\ Cardinality({i \in DOMAIN skipped : skipped[i].id = id}) = 2

----------------------------------------------------------------------------
(* collect_report: the connections *)

\* C38 (as claimed): the walk never holds two open connections, and when
\* collect_report has ended, by return or by exception, neither the connection
\* of `websocket` nor one that _open_connection opened is left open.
C38_ConnectionsClosed ==
    /\ ~(wconn = "open" /\ nconn = "open")
    /\ wpc = "done" => (wconn /= "open" /\ nconn /= "open")

----------------------------------------------------------------------------
(* set_control: termination *)

\* the steps of set_control that end by themselves: the connect is bounded by
\* open_timeout=5 (line 290), every read by the timeout of line 276, a send
\* goes out or raises at once, the rest is the call's own code.  The device
\* closes the connection when it pleases.
SetStep ==
    \/ Connect \/ ConnectFail
    \/ SendLogin \/ RecvGreeting
    \/ SendGet \/ RecvOuter
    \/ SendLookup \/ RecvLookup
    \/ SendSet \/ RecvSet
    \/ SendRefresh1 \/ RecvRefresh1
    \/ SendSave \/ RecvSave
    \/ SendRefresh2 \/ RecvRefresh2
    \/ SendRefresh3 \/ RecvFinal

\* one call of set_control; the event loop runs the coroutine whenever it can
\* go on
SpecSetLive == SetInit /\ [][SetNext]_vars /\ WF_vars(SetStep)

\* the awaits of set_control in program order
SetOrder ==
    << "connect", "send_login", "recv_greeting", "send_get", "recv_outer",
       "send_lookup", "recv_lookup", "send_set", "recv_set", "send_refresh1",
       "recv_refresh1", "send_save", "recv_save", "send_refresh2", "recv_refresh2",
       "send_refresh3", "recv_final", "done" >>
SetRank(p) == CHOOSE i \in DOMAIN SetOrder : SetOrder[i] = p

\* C39: set_control always ends (it returns or raises), whatever the device
\* does: silent, answering out of order, closing at any step.  It never goes
\* back in its program (no loop), it sends at most eight commands, and it has
\* made at most one read per command sent.
C39_SetTerminates ==
    /\ <>(pc = "done")
    /\ [](pc = "done" => outcome.kind \in {"returned", "raised"})
    /\ [][pc' /= pc => SetRank(pc') > SetRank(pc)]_vars
    /\ [](Len(sent) <= 8 /\ reads <= Len(sent))

\* a call that sent the eight commands and ended, the device having answered
\* the lookup only
C39_Witness ==
    /\ pc = "done"
    /\ Len(sent) = 8 /\ reads = 8 /\ Len(responses) = 1

====
